---- MODULE Spec2Model ----
(***************************************************************************)
(* Smart-money signal pipeline of src/api/whale_tracker.py (WhaleTracker): *)
(* the two-tier TTL cache, the insider-trade fetch and enrichment, the     *)
(* cluster detector, the alert feed and the radar projection.              *)
(*                                                                         *)
(* Conventions of the model                                                *)
(*  - time is the wall clock in whole seconds (datetime.now()); a          *)
(*    transaction date "YYYY-MM-DD" is the number of its day, and          *)
(*    strptime of it is midnight of that day, day * DAY_SECONDS;           *)
(*  - Python's None is the record NoneVal; an Optional result is a record  *)
(*    [some |-> BOOLEAN, v |-> value];                                     *)
(*  - a call that raises leaves ret.raised = TRUE.                         *)
(***************************************************************************)
EXTENDS Integers, Sequences, FiniteSets, TLC

VARIABLES
    now,            \* datetime.now(), in seconds
    memory_cache,   \* WhaleTracker._memory_cache : key -> (data, cached_time)
    cache_files,    \* cache_dir/<key>.json       : key -> (text, mtime)
    api_key,        \* WhaleTracker.api_key is set (and requests is importable)
    tx_source,      \* transaction source: what /v4/insider-trading answers
    quote_source,   \* quote source: what /v3/quote/<symbol> answers
    ret,            \* the last call: operation, arguments, result, requests
    hist            \* history of the calls, kept for the temporal claims

vars == <<now, memory_cache, cache_files, api_key, tx_source, quote_source, ret, hist>>

(***************************************************************************)
(* Bounds of the model and constants of the program                        *)
(***************************************************************************)
CACHE_DURATION == 300
DAY_SECONDS == 86400
MaxTime == 301

\* The instants at which the model samples the clock: around each multiple
\* of the TTL, so that ages TTL-1, TTL and TTL+1 all occur.
TimeGrid == {t \in 0..MaxTime : t % CACHE_DURATION \in {0, 1, CACHE_DURATION - 1}}

NoneVal == [none |-> TRUE]
Some(v) == [some |-> TRUE, v |-> v]
Absent == [some |-> FALSE, v |-> NoneVal]

(***************************************************************************)
(* TTL cache: _get_cache_key, _get_cached, _set_cached                     *)
(***************************************************************************)

\* json.dump / json.load: the text of a value, and the value of a text; a
\* text that is no JSON document raises json.JSONDecodeError.
JsonDump(data) == [form |-> "json", doc |-> data]
CorruptText == [form |-> "corrupt", doc |-> NoneVal]
\* a file whose bytes are no UTF-8 text
UndecodableText == [form |-> "undecodable", doc |-> NoneVal]
JsonLoad(text) == IF text.form = "json" THEN Some(text.doc) ELSE Absent
\* json.load(f) reads the file as text first: UnicodeDecodeError, a
\* ValueError that is neither json.JSONDecodeError nor OSError
LoadRaises(text) == text.form = "undecodable"

\* two other freshness tests, one second short and one second long, that
\* the cache properties tell from the test of the code
FreshShort(stamp, t) == (t - stamp) < CACHE_DURATION - 1
FreshLe(stamp, t) == (t - stamp) <= CACHE_DURATION
\* an entry kept for twice the TTL, that the staleness bound tells from the
\* test of the code
FreshTwice(stamp, t) == (t - stamp) < 2 * CACHE_DURATION
\* (datetime.now() - cached_time).total_seconds() < self.CACHE_DURATION
Fresh(stamp, t) == (t - stamp) < CACHE_DURATION

\* a read that stamps the memory copy of a durable entry with the time of
\* the read, which starts the lifetime of the entry again
GetCachedRestamped(mem, files, key, t) ==
    IF key \in DOMAIN mem /\ (t - mem[key].cached_time) < CACHE_DURATION
    THEN [data |-> Some(mem[key].data), mem |-> mem, tier |-> "memory",
          raised |-> FALSE]
    ELSE IF key \in DOMAIN files
            /\ (t - files[key].mtime) < CACHE_DURATION
            /\ ~files[key].locked
            /\ files[key].text.form = "json"
         THEN [data |-> Some(files[key].text.doc),
               mem  |-> [k \in DOMAIN mem \cup {key} |->
                           IF k = key
                           THEN [data |-> files[key].text.doc, cached_time |-> t]
                           ELSE mem[k]],
               tier |-> "file", raised |-> FALSE]
         ELSE [data |-> Absent, mem |-> mem, tier |-> "none",
               raised |-> key \in DOMAIN files
                          /\ (t - files[key].mtime) < CACHE_DURATION
                          /\ ~files[key].locked
                          /\ files[key].text.form = "undecodable"]

\* _get_cached(cache_key) at time t on the tiers (mem, files):
\* the value returned (or None), the memory map afterwards, the tier
\* that served the read and whether the read raised.  A file the process
\* may not open (locked) raises OSError at open, which is caught.
GetCachedF(mem, files, key, t) ==
    IF key \in DOMAIN mem /\ Fresh(mem[key].cached_time, t)
    THEN [data |-> Some(mem[key].data), mem |-> mem, tier |-> "memory",
          raised |-> FALSE]
    ELSE IF key \in DOMAIN files
            /\ Fresh(files[key].mtime, t)
            /\ ~files[key].locked
         THEN IF LoadRaises(files[key].text)
              THEN [data |-> Absent, mem |-> mem, tier |-> "none", raised |-> TRUE]
              ELSE IF JsonLoad(files[key].text).some
              THEN [data |-> JsonLoad(files[key].text),
                    mem  |-> [k \in DOMAIN mem \cup {key} |->
                                IF k = key
                                THEN [data |-> JsonLoad(files[key].text).v,
                                      cached_time |-> files[key].mtime]
                                ELSE mem[k]],
                    tier |-> "file", raised |-> FALSE]
              ELSE [data |-> Absent, mem |-> mem, tier |-> "none", raised |-> FALSE]
         ELSE [data |-> Absent, mem |-> mem, tier |-> "none", raised |-> FALSE]

\* _set_cached(cache_key, data) at time t: both tiers afterwards.
SetCachedMem(mem, key, data, t) ==
    [k \in DOMAIN mem \cup {key} |->
        IF k = key THEN [data |-> data, cached_time |-> t] ELSE mem[k]]

\* open(cache_file, 'w') raises OSError, which is caught, on a file the
\* process may not open
Locked(files, key) == key \in DOMAIN files /\ files[key].locked

\* the file tier after json.dump wrote `text` under the key
WriteFile(files, key, text, t) ==
    IF Locked(files, key) THEN files
    ELSE [k \in DOMAIN files \cup {key} |->
             IF k = key THEN [text |-> text, mtime |-> t, locked |-> FALSE]
             ELSE files[k]]

\* the file tier after _set_cached of a value json.dump can write
SetCachedFiles(files, key, data, t) == WriteFile(files, key, JsonDump(data), t)

\* _set_cached(cache_key, data) at time t for any value: json.dump writes
\* the value (dump "ok"), or raises TypeError on an object it cannot write,
\* which is caught, or ValueError on a circular structure, which is not;
\* a dump that raises leaves the part of the text it had written.
SetCachedF(mem, files, key, value, t) ==
    [mem |-> SetCachedMem(mem, key, value.data, t),
     files |-> IF value.dump = "ok" THEN SetCachedFiles(files, key, value.data, t)
               ELSE WriteFile(files, key, CorruptText, t),
     raised |-> ~Locked(files, key) /\ value.dump = "ValueError"]

EmptyMap == [k \in {} |-> NoneVal]

\* the one element of a singleton: Only({F(x) : x \in {e}}) is F applied to
\* the value of e, computed once
Only(S) == CHOOSE x \in S : TRUE

(***************************************************************************)
(* Data model: InsiderTrade                                                *)
(*                                                                         *)
(* Units: price is in cents, total_value in whole dollars, market_cap in   *)
(* units of 10^8 dollars, shares_outstanding in units of 10^6 shares and   *)
(* the two percentages in millionths of a percent (the 6 decimals that     *)
(* round(..., 6) keeps).  A date is [k |-> "iso", d |-> day] for a         *)
(* "YYYY-MM-DD" string, [k |-> "bad"] for any other string and             *)
(* [k |-> "null"] for None.                                                *)
(***************************************************************************)
NoNum == [some |-> FALSE, v |-> 0]
Num(n) == [some |-> TRUE, v |-> n]

IsoDate(d) == [k |-> "iso", d |-> d]
BadDate == [k |-> "bad", d |-> 0]
NullDate == [k |-> "null", d |-> 0]

Abs(n) == IF n < 0 THEN 0 - n ELSE n

\* the product without the abs(), that a negative share count tells from the
\* notional value of the code
NotionalSigned(shares, price) == (shares * price) \div 100

\* abs(shares * price), price in cents, in dollars
Notional(shares, price) ==
    Abs(shares) * (Abs(price) \div 100) + (Abs(shares) * (Abs(price) % 100)) \div 100

\* round(a / b, 0) for a >= 0, b > 0
RoundDiv(a, b) == (2 * a + b) \div (2 * b)

\* InsiderTrade(...) as get_insider_trades constructs it: the context
\* metrics and the significance default to None.
InsiderTrade(symbol, name, type, date, shares, price, total) ==
    [symbol |-> symbol, reporter_name |-> name, transaction_type |-> type,
     transaction_date |-> date, shares_transacted |-> shares, price |-> price,
     total_value |-> total,
     market_cap |-> NoNum, shares_outstanding |-> NoNum,
     pct_of_outstanding |-> NoNum, pct_of_market_cap |-> NoNum,
     significance |-> "None"]

is_buy(t) == t.transaction_type \in {"P", "P-Purchase"}
is_sell(t) == t.transaction_type \in {"S", "S-Sale"}

\* the magnitude tiers with boundaries open on the low end
signal_strength_open(t) ==
    IF t.total_value > 10000000 THEN "massive"
    ELSE IF t.total_value > 1000000 THEN "large"
    ELSE IF t.total_value > 100000 THEN "significant"
    ELSE "minor"

\* @property signal_strength
signal_strength(t) ==
    IF t.total_value >= 10000000 THEN "massive"
    ELSE IF t.total_value >= 1000000 THEN "large"
    ELSE IF t.total_value >= 100000 THEN "significant"
    ELSE "minor"

\* the significance tiers with thresholds that include their bound
calculate_significance_closed(t) ==
    LET pct_out == IF t.pct_of_outstanding.some THEN t.pct_of_outstanding.v ELSE 0
        pct_cap == IF t.pct_of_market_cap.some THEN t.pct_of_market_cap.v ELSE 0
    IN  IF pct_out >= 1000000 \/ pct_cap >= 500000 THEN "CRITICAL"
        ELSE IF pct_out >= 500000 \/ pct_cap >= 200000 THEN "HIGH"
        ELSE IF pct_out >= 100000 THEN "MEDIUM"
        ELSE "LOW"

\* pct_out = self.pct_of_outstanding or 0 ; thresholds 1.0, 0.5, 0.2, 0.1 %
calculate_significance(t) ==
    LET pct_out == IF t.pct_of_outstanding.some THEN t.pct_of_outstanding.v ELSE 0
        pct_cap == IF t.pct_of_market_cap.some THEN t.pct_of_market_cap.v ELSE 0
    IN  IF pct_out > 1000000 \/ pct_cap > 500000 THEN "CRITICAL"
        ELSE IF pct_out > 500000 \/ pct_cap > 200000 THEN "HIGH"
        ELSE IF pct_out > 100000 THEN "MEDIUM"
        ELSE "LOW"

(***************************************************************************)
(* Mock data: _get_mock_insider_trades                                     *)
(***************************************************************************)
\* symbol, reporter, type, days before today, shares, price, total_value,
\* and the symbol's row of mock_market_caps (market cap, shares outstanding)
MockRows ==
    << <<"AAPL", "Tim Cook", "S-Sale", 1, 50000, 18550, 9275000, 29000, 15500>>,
       <<"NVDA", "Jensen Huang", "S-Sale", 2, 100000, 54500, 54500000, 32000, 24600>>,
       <<"META", "Mark Zuckerberg", "P-Purchase", 3, 25000, 57500, 14375000, 15000, 2600>>,
       <<"TSLA", "Robyn Denholm", "P-Purchase", 4, 5000, 42500, 2125000, 13000, 3200>>,
       <<"JPM", "Jamie Dimon", "P-Purchase", 5, 10000, 24500, 2450000, 6000, 2900>>,
       <<"MSFT", "Satya Nadella", "S-Sale", 2, 35000, 42000, 14700000, 31000, 7400>>,
       <<"GOOGL", "Sundar Pichai", "S-Sale", 3, 20000, 18500, 3700000, 20000, 12300>>,
       <<"AMZN", "Andy Jassy", "S-Sale", 4, 15000, 22500, 3375000, 19000, 10500>>,
       <<"BRK.B", "Warren Buffett", "P-Purchase", 6, 5000, 46000, 2300000, 9000, 1300>>,
       <<"V", "Ryan McInerney", "P-Purchase", 7, 8000, 31000, 2480000, 5800, 1900>>,
       <<"UNH", "Andrew Witty", "P-Purchase", 2, 3000, 52000, 1560000, 4800, 920>>,
       <<"JNJ", "Joaquin Duato", "P-Purchase", 3, 5000, 15500, 775000, 3600, 2400>>,
       <<"XOM", "Darren Woods", "P-Purchase", 4, 10000, 10500, 1050000, 4600, 4200>>,
       <<"CVX", "Mike Wirth", "S-Sale", 5, 8000, 14500, 1160000, 2800, 1800>>,
       <<"WMT", "Doug McMillon", "P-Purchase", 1, 6000, 17500, 1050000, 6800, 2700>>,
       <<"COST", "Ron Vachris", "P-Purchase", 2, 2000, 92500, 1850000, 4000, 443>>,
       <<"CAT", "Jim Umpleby", "P-Purchase", 3, 4000, 38000, 1520000, 1750, 500>>,
       <<"UPS", "Carol Tome", "S-Sale", 4, 7000, 13500, 945000, 1150, 850>>,
       <<"AMD", "Lisa Su", "S-Sale", 1, 25000, 12500, 3125000, 2000, 1600>>,
       <<"AVGO", "Hock Tan", "S-Sale", 2, 5000, 18500, 925000, 7500, 465>>,
       <<"CRWD", "George Kurtz", "P-Purchase", 5, 8000, 36500, 2920000, 800, 240>>,
       <<"SNOW", "Sridhar Ramaswamy", "P-Purchase", 6, 10000, 16500, 1650000, 550, 330>> >>

Today(t) == t \div DAY_SECONDS

\* one mock trade with its market context and significance filled in
MockTrade(row, t) ==
    LET base == InsiderTrade(row[1], row[2], row[3], IsoDate(Today(t) - row[4]),
                             row[5], row[6], row[7])
        ctx  == [base EXCEPT !.market_cap = Num(row[8]),
                             !.shares_outstanding = Num(row[9]),
                             !.pct_of_outstanding = Num(RoundDiv(row[5] * 100, row[9])),
                             !.pct_of_market_cap = Num(RoundDiv(row[7], row[8]))]
    IN  [ctx EXCEPT !.significance = calculate_significance(ctx)]

\* _get_mock_insider_trades(symbol) at time t; symbol "" or None is falsy.
\* (symbol.upper(): the symbols of the model are upper case.)
MockInsiderTrades(symbol, t) ==
    LET all == [i \in 1..Len(MockRows) |-> MockTrade(MockRows[i], t)]
        Same(tr) == tr.symbol = symbol
    IN  IF symbol # "" THEN SelectSeq(all, Same) ELSE all

(***************************************************************************)
(* Cache keys: _get_cache_key                                              *)
(***************************************************************************)
NoStr == [some |-> FALSE, v |-> ""]
Str(x) == [some |-> TRUE, v |-> x]

\* the order of the keyword names under sorted()
KwNames == <<"guru_id", "limit", "symbol", "symbols">>

RECURSIVE Join(_, _)
\* sep.join(parts)
Join(parts, sep) ==
    IF parts = <<>> THEN ""
    ELSE IF Len(parts) = 1 THEN parts[1]
    ELSE parts[1] \o sep \o Join(Tail(parts), sep)

\* a key made of the arguments in the order the caller wrote them, without
\* the sorted(), that the canonical key is told from
KeyAsWritten(name, kwargs) ==
    LET Given(pair) == pair[2].some
        given == SelectSeq(kwargs, Given)
    IN  Join(<<name>> \o [i \in 1..Len(given) |-> given[i][1] \o "=" \o given[i][2].v],
             "_")

\* _get_cache_key(name, **kwargs): kwargs is the sequence of the <<k, v>>
\* pairs as the caller wrote them, v an optional string (None is NoStr).
get_cache_key(name, kwargs) ==
    LET Part(i) ==
            LET hits == {j \in 1..Len(kwargs) :
                            kwargs[j][1] = KwNames[i] /\ kwargs[j][2].some}
            IN  IF hits = {} THEN <<>>
                ELSE LET j == CHOOSE h \in hits : TRUE
                     IN  <<kwargs[j][1] \o "=" \o kwargs[j][2].v>>
    IN  Join(<<name>> \o Part(1) \o Part(2) \o Part(3) \o Part(4), "_")

(***************************************************************************)
(* Upstream sources and _make_request                                      *)
(*                                                                         *)
(* A response is [ok, items]: ok = FALSE is any failure of the request     *)
(* (network error, HTTP error status), which _make_request turns into      *)
(* None.  A number in a JSON record is [k, n]: k = "num" a number n,       *)
(* k = "null" a null or missing field, k = "bad" a value int()/float()     *)
(* reject.                                                                 *)
(***************************************************************************)
Failure == [ok |-> FALSE, items |-> <<>>]
Response(items) == [ok |-> TRUE, items |-> items]

RawNum(n) == [k |-> "num", n |-> n]
RawNull == [k |-> "null", n |-> 0]
RawBad == [k |-> "bad", n |-> 0]
\* a number beyond the floats, such as 1e999, that the JSON parser reads as inf
RawInf == [k |-> "inf", n |-> 0]

RawTrade(symbol, name, type, date, shares, price) ==
    [symbol |-> symbol, reportingName |-> name, transactionType |-> type,
     transactionDate |-> date, securitiesTransacted |-> shares, price |-> price]

RawQuote(cap, so) == [marketCap |-> cap, sharesOutstanding |-> so]

\* The transaction source holds a feed of records: a request for a symbol
\* is answered the records of the symbol, a market-wide request all of them.
\* get_insider_trades(symbol, ...) asks for a symbol when "if symbol:" holds.
TxResponse(symbol) ==
    LET Same(item) == item.symbol = symbol.v
    IN  IF ~tx_source.ok THEN Failure
        ELSE IF symbol.some /\ symbol.v # ""
        THEN Response(SelectSeq(tx_source.feed, Same))
        ELSE Response(tx_source.feed)

\* The quote source answers the symbols it knows; for any other symbol the
\* answer is an empty list.
QuoteResponse(symbol) ==
    IF symbol \in DOMAIN quote_source THEN quote_source[symbol] ELSE Response(<<>>)

TxEndpoint(symbol) ==
    IF symbol.some /\ symbol.v # ""
    THEN "/v4/insider-trading?symbol=" \o symbol.v
    ELSE "/v4/insider-trading"

QuoteEndpoint(symbol) == "/v3/quote/" \o symbol

\* the requests _make_request adds to those issued so far: none without
\* an API key
Issue(reqs, endpoint) == IF api_key THEN Append(reqs, endpoint) ELSE reqs

(***************************************************************************)
(* Enrichment: _enrich_insider_trades                                      *)
(***************************************************************************)
QUOTE_SYMBOL_CAP == 20

RECURSIVE DistinctSymbols(_, _)
\* the non-empty symbols of the trades, each once, in order of appearance
DistinctSymbols(trades, seen) ==
    IF trades = <<>> THEN <<>>
    ELSE LET sym == Head(trades).symbol
         IN  IF sym = "" \/ sym \in seen
             THEN DistinctSymbols(Tail(trades), seen)
             ELSE <<sym>> \o DistinctSymbols(Tail(trades), seen \cup {sym})

Range(f) == {f[i] : i \in DOMAIN f}

RECURSIVE KSubsets(_, _)
\* the subsets of S that have k elements
KSubsets(S, k) ==
    IF k = 0 THEN {{}}
    ELSE UNION {{r \cup {x} : r \in KSubsets(S \ {x}, k - 1)} : x \in S}

\* list(set(t.symbol for t in trades if t.symbol))[:20]: the order of a set
\* is arbitrary, so any QUOTE_SYMBOL_CAP of the distinct symbols can come
\* first.  Each possible choice, as the set of the symbols kept.
SymbolChoices(trades) ==
    LET all == Range(DistinctSymbols(trades, {}))
    IN  IF Cardinality(all) <= QUOTE_SYMBOL_CAP THEN {all}
        ELSE {all \ drop :
                  drop \in KSubsets(all, Cardinality(all) - QUOTE_SYMBOL_CAP)}

\* the loop running over every distinct symbol, without the [:20], that the
\* request bound tells from the loop of the code
SymbolListUncapped(trades, keep) == DistinctSymbols(trades, {})

\* the symbols kept, as the list the loop runs over
SymbolList(trades, keep) ==
    LET Kept(sym) == sym \in keep
    IN  SelectSeq(DistinctSymbols(trades, {}), Kept)

Put(f, k, v) == [x \in DOMAIN f \cup {k} |-> IF x = k THEN v ELSE f[x]]

\* One turn of the loop "for symbol in symbols[:20]" on the state
\* st = [mem, files, reqs, md] (md is market_data) at time t.
FetchQuoteAlways(st, symbol, t) ==
    LET key  == "quote_" \o symbol
        resp == QuoteResponse(symbol)
        data == [market_cap |-> resp.items[1].marketCap,
                 shares_outstanding |-> resp.items[1].sharesOutstanding]
        st1  == [st EXCEPT !.reqs = Issue(st.reqs, QuoteEndpoint(symbol))]
    IN  IF api_key /\ resp.ok /\ Len(resp.items) > 0
        THEN [st1 EXCEPT !.md = Put(st.md, symbol, data),
                         !.mem = SetCachedMem(st.mem, key, data, t),
                         !.files = SetCachedFiles(st.files, key, data, t)]
        ELSE st1

FetchQuote(st, symbol, t) ==
    LET key == "quote_" \o symbol
        got == GetCachedF(st.mem, st.files, key, t)
        st0 == [st EXCEPT !.mem = got.mem]
    IN  IF got.raised THEN [st EXCEPT !.raised = TRUE]
        ELSE IF got.data.some
        THEN [st0 EXCEPT !.md = Put(st.md, symbol, got.data.v)]
        ELSE FetchQuoteAlways(st0, symbol, t)

RECURSIVE FetchQuotes(_, _, _)
FetchQuotes(st, symbols, t) ==
    IF symbols = <<>> \/ st.raised THEN st
    ELSE Only({FetchQuotes(next, Tail(symbols), t) :
                  next \in {FetchQuote(st, Head(symbols), t)}})

ZeroQuote == [market_cap |-> RawNum(0), shares_outstanding |-> RawNum(0)]

\* data = market_data.get(trade.symbol, {}) with the .get(..., 0) defaults
QuoteOf(md, symbol) == IF symbol \in DOMAIN md THEN md[symbol] ELSE ZeroQuote

\* "if market_cap > 0" raises TypeError when market_cap is None
EnrichRaises(trade, md) == QuoteOf(md, trade.symbol).market_cap.k # "num"

\* the body of "for trade in trades" when it does not raise
EnrichTrade(trade, md) ==
    LET data == QuoteOf(md, trade.symbol)
        cap  == data.market_cap.n
        hasSo == data.shares_outstanding.k = "num" /\ data.shares_outstanding.n # 0
        so   == data.shares_outstanding.n
        t1 == IF cap # 0 THEN [trade EXCEPT !.market_cap = Num(cap)] ELSE trade
        t2 == IF hasSo
              THEN [t1 EXCEPT !.shares_outstanding = Num(so),
                              !.pct_of_outstanding =
                                  IF so > 0
                                  THEN Num(RoundDiv(trade.shares_transacted * 100, so))
                                  ELSE Num(0)]
              ELSE t1
        t3 == IF cap > 0
              THEN [t2 EXCEPT !.pct_of_market_cap = Num(RoundDiv(trade.total_value, cap))]
              ELSE t2
    IN  [t3 EXCEPT !.significance = calculate_significance(t3)]

\* _enrich_insider_trades(trades) at time t, the set having put `keep`
\* first: the trades returned, whether it raised, and the tiers and the
\* requests afterwards.
EnrichInsiderTrades(trades, keep, mem, files, reqs, t) ==
    LET Enriched(st) ==
            LET raised == \/ st.raised
                          \/ \E i \in 1..Len(trades) : EnrichRaises(trades[i], st.md)
            IN  [trades |-> IF raised THEN <<>>
                            ELSE [i \in 1..Len(trades) |-> EnrichTrade(trades[i], st.md)],
                 raised |-> raised, mem |-> st.mem, files |-> st.files,
                 reqs |-> st.reqs]
    IN  Only({Enriched(st) :
                 st \in {FetchQuotes([mem |-> mem, files |-> files, reqs |-> reqs,
                                      md |-> EmptyMap, raised |-> FALSE],
                                     SymbolList(trades, keep), t)}})

(***************************************************************************)
(* get_insider_trades                                                      *)
(***************************************************************************)
\* int(x or 0), float(x or 0): ValueError on a value that is no number
ParseFails(item) == item.securitiesTransacted.k = "bad" \/ item.price.k = "bad"

\* int(inf): OverflowError, which "except (ValueError, TypeError)" lets through
ParseOverflows(item) == item.securitiesTransacted.k = "inf"

ParseNum(raw) == IF raw.k = "num" THEN raw.n ELSE 0

\* the InsiderTrade built from one record of the response
BuildTrade(item) ==
    LET shares == ParseNum(item.securitiesTransacted)
        price  == ParseNum(item.price)
    IN  InsiderTrade(item.symbol, item.reportingName, item.transactionType,
                     item.transactionDate, Abs(shares), price,
                     Notional(shares, price))

Prefix(s, n) == SubSeq(s, 1, IF n < Len(s) THEN (IF n < 0 THEN Len(s) + n ELSE n) ELSE Len(s))

RECURSIVE BuildTrades(_)
\* the loop "for item in data[:limit]": a record that fails to parse is skipped
BuildTrades(items) ==
    IF items = <<>> THEN <<>>
    ELSE IF ParseFails(Head(items)) THEN BuildTrades(Tail(items))
    ELSE <<BuildTrade(Head(items))>> \o BuildTrades(Tail(items))

\* the loop is left by the exception of a record it does not catch
BuildRaises(items) == \E i \in 1..Len(items) : ParseOverflows(items[i])

InsiderTradesKey(symbol, limit) ==
    get_cache_key("insider_trades", << <<"symbol", symbol>>, <<"limit", Str(ToString(limit))>> >>)

\* get_insider_trades(symbol, limit) at time t on (mem, files), after the
\* requests reqs: the trades returned, whether the call raised, the origin
\* of the result and the tiers and requests afterwards.  The symbols of one
\* response are few enough for _enrich_insider_trades to keep them all.
GetInsiderTradesF(symbol, limit, mem, files, reqs, t) ==
    LET key   == InsiderTradesKey(symbol, limit)
        reqs1 == Issue(reqs, TxEndpoint(symbol))
        Enriched(enr) ==
            IF enr.raised
            THEN [trades |-> <<>>, raised |-> TRUE, origin |-> "raised",
                  mem |-> enr.mem, files |-> enr.files, reqs |-> enr.reqs]
            ELSE IF enr.trades # <<>>
            THEN [trades |-> enr.trades, raised |-> FALSE, origin |-> "upstream",
                  mem |-> SetCachedMem(enr.mem, key, enr.trades, t),
                  files |-> SetCachedFiles(enr.files, key, enr.trades, t),
                  reqs |-> enr.reqs]
            ELSE [trades |-> <<>>, raised |-> FALSE, origin |-> "upstream",
                  mem |-> enr.mem, files |-> enr.files, reqs |-> enr.reqs]
        Built(got, built) ==
            Only({Enriched(enr) :
                     enr \in {EnrichInsiderTrades(built,
                                                  CHOOSE c \in SymbolChoices(built) : TRUE,
                                                  got.mem, files, reqs1, t)}})
        Fetched(got, resp) ==
            IF ~(api_key /\ resp.ok /\ resp.items # <<>>)
            THEN [trades |-> MockInsiderTrades(IF symbol.some THEN symbol.v ELSE "", t),
                  raised |-> FALSE, origin |-> "mock",
                  mem |-> got.mem, files |-> files, reqs |-> reqs1]
            ELSE IF BuildRaises(Prefix(resp.items, limit))
            THEN [trades |-> <<>>, raised |-> TRUE, origin |-> "raised",
                  mem |-> got.mem, files |-> files, reqs |-> reqs1]
            ELSE Only({Built(got, built) :
                          built \in {BuildTrades(Prefix(resp.items, limit))}})
        Served(got) ==
            IF got.raised
            THEN [trades |-> <<>>, raised |-> TRUE, origin |-> "raised",
                  mem |-> got.mem, files |-> files, reqs |-> reqs]
            ELSE IF got.data.some
            THEN [trades |-> got.data.v, raised |-> FALSE, origin |-> "cache",
                  mem |-> got.mem, files |-> files, reqs |-> reqs]
            ELSE Only({Fetched(got, resp) : resp \in {TxResponse(symbol)}})
    IN  Only({Served(got) : got \in {GetCachedF(mem, files, key, t)}})

(***************************************************************************)
(* Cluster detector: detect_cluster_activity                               *)
(***************************************************************************)
CLUSTER_FETCH_LIMIT == 100

\* a window one day shorter, that the repeated calls tell from the window
\* of the code
IsRecentDayShort(trade, days, t) ==
    /\ trade.transaction_date.k = "iso"
    /\ trade.transaction_date.d * DAY_SECONDS >= t - (days - 1) * DAY_SECONDS

\* datetime.strptime(trade.transaction_date, "%Y-%m-%d") >= cutoff_date,
\* cutoff_date = datetime.now() - timedelta(days=days)
IsRecent(trade, days, t) ==
    /\ trade.transaction_date.k = "iso"
    /\ trade.transaction_date.d * DAY_SECONDS >= t - days * DAY_SECONDS

\* strptime(None, ...) raises TypeError, which the loop does not catch
DateRaises(trade) == trade.transaction_date.k = "null"

RecentTrades(trades, days, t) ==
    LET Keep(tr) == IsRecent(tr, days, t) IN SelectSeq(trades, Keep)

Buys(trades) == SelectSeq(trades, is_buy)
Sells(trades) == SelectSeq(trades, is_sell)

Reporters(trades) == {trades[i].reporter_name : i \in 1..Len(trades)}

RECURSIVE SumValues(_)
\* sum(t.total_value for t in trades)
SumValues(trades) ==
    IF trades = <<>> THEN 0 ELSE Head(trades).total_value + SumValues(Tail(trades))

Days(trades) == {trades[i].transaction_date.d : i \in 1..Len(trades)}
MinOf(S) == CHOOSE x \in S : \A y \in S : x <= y
MaxOf(S) == CHOOSE x \in S : \A y \in S : x >= y

\* f"{dates[0]} to {dates[-1]}" if len(dates) > 1 else dates[0], as the
\* list of the dates named
DateRange(trades) ==
    IF Len(trades) > 1 THEN <<MinOf(Days(trades)), MaxOf(Days(trades))>>
    ELSE <<MinOf(Days(trades))>>

Urgency(n) == IF n >= 4 THEN "critical" ELSE IF n >= 3 THEN "high" ELSE "moderate"

ClusterActivity(symbol, type, side) ==
    [symbol |-> symbol, activity_type |-> type,
     insider_count |-> Cardinality(Reporters(side)),
     total_value |-> SumValues(side), date_range |-> DateRange(side),
     insiders |-> Reporters(side), urgency |-> Urgency(Cardinality(Reporters(side)))]

NoCluster == [some |-> FALSE, v |-> NoneVal]

\* two other resolutions of the two sides, that the cluster properties tell from
\* the comparison of the code: the sell side wins a tie; the sell side never wins
SellWinsGe(sell_total, buy_total) == sell_total >= buy_total
SellWinsNever(sell_total, buy_total) == FALSE
\* "sell_total > cluster.total_value"
SellWins(sell_total, buy_total) == sell_total > buy_total

\* The part of detect_cluster_activity after the fetch: the cluster of the
\* trades (or None), and whether it raised (TypeError on a None date,
\* IndexError on dates[0] of a side without trades).
ClusterOf(symbol, trades, days, min_insiders, t) ==
    LET Decide(buys, sells) ==
            LET buyQ   == Cardinality(Reporters(buys)) >= min_insiders
                sellQ  == Cardinality(Reporters(sells)) >= min_insiders
                takeSell == sellQ /\ (~buyQ \/ SellWins(SumValues(sells), SumValues(buys)))
            IN  IF (buyQ /\ buys = <<>>) \/ (takeSell /\ sells = <<>>)
                THEN [cluster |-> NoCluster, raised |-> TRUE]
                ELSE IF takeSell
                THEN [cluster |-> Some(ClusterActivity(symbol, "cluster_sell", sells)),
                      raised |-> FALSE]
                ELSE IF buyQ
                THEN [cluster |-> Some(ClusterActivity(symbol, "cluster_buy", buys)),
                      raised |-> FALSE]
                ELSE [cluster |-> NoCluster, raised |-> FALSE]
    IN  IF trades = <<>> THEN [cluster |-> NoCluster, raised |-> FALSE]
        ELSE IF \E i \in 1..Len(trades) : DateRaises(trades[i])
        THEN [cluster |-> NoCluster, raised |-> TRUE]
        ELSE Only({Decide(Buys(recent), Sells(recent)) :
                      recent \in {RecentTrades(trades, days, t)}})

\* detect_cluster_activity(symbol, days, min_insiders) at time t
DetectClusterF(symbol, days, min_insiders, mem, files, reqs, t) ==
    LET Detected(got, res) ==
            [cluster |-> IF got.raised THEN NoCluster ELSE res.cluster,
             raised  |-> got.raised \/ res.raised,
             trades  |-> got.trades,
             mem |-> got.mem, files |-> got.files, reqs |-> got.reqs]
        Fetched(got) ==
            Only({Detected(got, res) :
                     res \in {ClusterOf(symbol, got.trades, days, min_insiders, t)}})
    IN  Only({Fetched(got) :
                 got \in {GetInsiderTradesF(Str(symbol), CLUSTER_FETCH_LIMIT,
                                            mem, files, reqs, t)}})

(***************************************************************************)
(* Alert feed: get_whale_alerts                                            *)
(***************************************************************************)
SYMBOL_SCAN_CAP == 5
SYMBOL_FETCH_LIMIT == 10
MARKET_FETCH_LIMIT == 50
SYMBOL_FLOOR == 100000
MARKET_FLOOR == 500000
DEFAULT_DAYS == 30
DEFAULT_MIN_INSIDERS == 2

\* signal="bullish" if trade.is_buy else "bearish"
TradeSignal(trade) == IF is_buy(trade) THEN "bullish" ELSE "bearish"

\* the WhaleAlert of a trade (alert_type "insider")
TradeAlert(trade) ==
    [alert_type |-> "insider", symbol |-> trade.symbol,
     signal |-> TradeSignal(trade), magnitude |-> signal_strength(trade),
     timestamp |-> trade.transaction_date,
     details |-> [trade |-> <<trade>>, cluster |-> <<>>]]

\* the WhaleAlert of a cluster; timestamp is date_range.split(" to ")[-1]
ClusterAlert(cluster) ==
    [alert_type |-> "cluster", symbol |-> cluster.symbol,
     signal |-> IF cluster.activity_type = "cluster_buy" THEN "bullish" ELSE "bearish",
     magnitude |-> IF cluster.urgency = "critical" THEN "massive" ELSE "large",
     timestamp |-> IsoDate(cluster.date_range[Len(cluster.date_range)]),
     details |-> [trade |-> <<>>, cluster |-> <<cluster>>]]

\* the alerts of the trades strictly above the floor, that a trade of
\* exactly the floor tells from the alerts of the code
TradeAlertsAbove(trades, floor) ==
    LET Big(tr) == tr.total_value > floor
        big == SelectSeq(trades, Big)
    IN  [i \in 1..Len(big) |-> TradeAlert(big[i])]

\* the alerts of all the trades, whatever their notional value
TradeAlertsAll(trades, floor) ==
    [i \in 1..Len(trades) |-> TradeAlert(trades[i])]

\* the alerts of the trades at or above the floor, in the order of the trades
TradeAlerts(trades, floor) ==
    LET Big(tr) == tr.total_value >= floor
        big == SelectSeq(trades, Big)
    IN  [i \in 1..Len(big) |-> TradeAlert(big[i])]

\* The order of the timestamp strings: ISO dates by day; the model's one
\* non-date string sorts after every date.
TsRank(ts) == IF ts.k = "iso" THEN ts.d ELSE 1000000

RECURSIVE InsertDescBeforeTies(_, _)
\* an insertion that puts `a` before the elements equal to it, which the
\* order of equal timestamps tells from the insertion of a stable sort
InsertDescBeforeTies(sorted, a) ==
    IF sorted = <<>> THEN <<a>>
    ELSE IF TsRank(Head(sorted).timestamp) > TsRank(a.timestamp)
         THEN <<Head(sorted)>> \o InsertDescBeforeTies(Tail(sorted), a)
         ELSE <<a>> \o sorted

RECURSIVE InsertDesc(_, _)
\* `a` put into the descending list after every element that is not smaller
InsertDesc(sorted, a) ==
    IF sorted = <<>> THEN <<a>>
    ELSE IF TsRank(Head(sorted).timestamp) >= TsRank(a.timestamp)
         THEN <<Head(sorted)>> \o InsertDesc(Tail(sorted), a)
         ELSE <<a>> \o sorted

RECURSIVE SortDescFrom(_, _)
SortDescFrom(sorted, rest) ==
    IF rest = <<>> THEN sorted
    ELSE Only({SortDescFrom(next, Tail(rest)) :
                  next \in {InsertDesc(sorted, Head(rest))}})

\* alerts.sort(key=lambda x: x.timestamp, reverse=True): stable
SortAlerts(alerts) == SortDescFrom(<<>>, alerts)

\* comparing a None timestamp with another raises TypeError
SortRaises(alerts) ==
    Len(alerts) > 1 /\ \E i \in 1..Len(alerts) : alerts[i].timestamp.k = "null"

\* the order of the symbols under sorted(): the symbols the model uses
SymbolOrder == <<"AAPL", "AMZN", "GOOGL", "META", "MSFT", "NVDA", "XYZ">>
SymbolRank(sym) == CHOOSE i \in 1..Len(SymbolOrder) : SymbolOrder[i] = sym

RECURSIVE InsertSym(_, _)
InsertSym(sorted, a) ==
    IF sorted = <<>> THEN <<a>>
    ELSE IF SymbolRank(Head(sorted)) <= SymbolRank(a)
         THEN <<Head(sorted)>> \o InsertSym(Tail(sorted), a)
         ELSE <<a>> \o sorted

RECURSIVE SortedSymbols(_)
SortedSymbols(symbols) ==
    IF symbols = <<>> THEN <<>>
    ELSE Only({InsertSym(front, symbols[Len(symbols)]) :
                  front \in {SortedSymbols(SubSeq(symbols, 1, Len(symbols) - 1))}})

\* "_".join(sorted(symbols)) if symbols else "all"; symbols None is <<>>
SymbolsKey(symbols) ==
    IF symbols = <<>> THEN "all" ELSE Join(SortedSymbols(symbols), "_")

WhaleAlertsKey(symbols, limit) ==
    get_cache_key("whale_alerts", << <<"symbols", Str(SymbolsKey(symbols))>>,
                                     <<"limit", Str(ToString(limit))>> >>)

\* One turn of "for symbol in symbols[:5]" on st = [alerts, raised, mem,
\* files, reqs]: the trade alerts of the symbol, then its cluster alert.
ScanSymbol(st, symbol, t) ==
    LET Scanned(got, det) ==
            [alerts |-> st.alerts \o TradeAlerts(got.trades, SYMBOL_FLOOR) \o
                        (IF det.cluster.some /\ ~det.raised
                         THEN <<ClusterAlert(det.cluster.v)>> ELSE <<>>),
             raised |-> det.raised,
             mem |-> det.mem, files |-> det.files, reqs |-> det.reqs]
        Fetched(got) ==
            IF got.raised
            THEN [st EXCEPT !.raised = TRUE, !.mem = got.mem, !.files = got.files,
                            !.reqs = got.reqs]
            ELSE Only({Scanned(got, det) :
                          det \in {DetectClusterF(symbol, DEFAULT_DAYS,
                                                  DEFAULT_MIN_INSIDERS,
                                                  got.mem, got.files, got.reqs, t)}})
    IN  IF st.raised THEN st
        ELSE Only({Fetched(got) :
                      got \in {GetInsiderTradesF(Str(symbol), SYMBOL_FETCH_LIMIT,
                                                 st.mem, st.files, st.reqs, t)}})

RECURSIVE ScanSymbols(_, _, _)
ScanSymbols(st, symbols, t) ==
    IF symbols = <<>> THEN st
    ELSE Only({ScanSymbols(next, Tail(symbols), t) :
                  next \in {ScanSymbol(st, Head(symbols), t)}})

\* the market-wide branch
ScanMarket(st, t) ==
    LET Scanned(got) ==
            [alerts |-> TradeAlerts(got.trades, MARKET_FLOOR), raised |-> got.raised,
             mem |-> got.mem, files |-> got.files, reqs |-> got.reqs]
    IN  Only({Scanned(got) :
                 got \in {GetInsiderTradesF(NoStr, MARKET_FETCH_LIMIT,
                                            st.mem, st.files, st.reqs, t)}})

\* get_whale_alerts(symbols, limit) at time t: the alerts returned, the
\* alerts generated before the sort and the cut (`full`), whether the call
\* raised, its origin and the tiers and requests afterwards.
GetWhaleAlertsF(symbols, limit, mem, files, reqs, t) ==
    LET key == WhaleAlertsKey(symbols, limit)
        Sorted(st, result) ==
            [alerts |-> result, full |-> st.alerts, raised |-> FALSE,
             origin |-> "computed",
             mem |-> IF result # <<>> THEN SetCachedMem(st.mem, key, result, t)
                     ELSE st.mem,
             files |-> IF result # <<>> THEN SetCachedFiles(st.files, key, result, t)
                       ELSE st.files,
             reqs |-> st.reqs]
        Scanned(st) ==
            IF st.raised \/ SortRaises(st.alerts)
            THEN [alerts |-> <<>>, full |-> <<>>, raised |-> TRUE, origin |-> "raised",
                  mem |-> st.mem, files |-> st.files, reqs |-> st.reqs]
            ELSE Only({Sorted(st, result) :
                          result \in {Prefix(SortAlerts(st.alerts), limit)}})
        Scan(st0) ==
            IF symbols # <<>>
            THEN ScanSymbols(st0, Prefix(symbols, SYMBOL_SCAN_CAP), t)
            ELSE ScanMarket(st0, t)
        Served(got) ==
            IF got.raised
            THEN [alerts |-> <<>>, full |-> <<>>, raised |-> TRUE, origin |-> "raised",
                  mem |-> got.mem, files |-> files, reqs |-> reqs]
            ELSE IF got.data.some
            THEN [alerts |-> got.data.v, full |-> got.data.v, raised |-> FALSE,
                  origin |-> "cache", mem |-> got.mem, files |-> files, reqs |-> reqs]
            ELSE Only({Scanned(st) :
                          st \in {Scan([alerts |-> <<>>, raised |-> FALSE,
                                        mem |-> got.mem, files |-> files,
                                        reqs |-> reqs])}})
    IN  Only({Served(got) : got \in {GetCachedF(mem, files, key, t)}})

(***************************************************************************)
(* Radar: get_radar_data, _format_radar_blips                              *)
(***************************************************************************)
RADAR_LIMIT == 20
MAX_BLIPS == 20

\* magnitude_map.get(alert.magnitude, 0.5), in hundredths
MagnitudeValue(magnitude) ==
    CASE magnitude = "massive" -> 100
      [] magnitude = "large" -> 80
      [] magnitude = "significant" -> 60
      [] magnitude = "moderate" -> 40
      [] OTHER -> 50

BlipColor(signal) ==
    IF signal = "bullish" THEN "#10b981"
    ELSE IF signal = "bearish" THEN "#ef4444" ELSE "#f59e0b"

\* a projection that draws every alert, without the limit of 20 blips
FormatRadarBlipsAll(alerts) ==
    LET den == IF Len(alerts) > 1 THEN Len(alerts) ELSE 1
    IN  [j \in 1..Len(alerts) |->
            [symbol |-> alerts[j].symbol,
             angle |-> [num |-> ((j - 1) * 360) % (360 * den), den |-> den],
             distance |-> 1000 - MagnitudeValue(alerts[j].magnitude) * 6,
             strength |-> MagnitudeValue(alerts[j].magnitude),
             color |-> BlipColor(alerts[j].signal),
             type |-> alerts[j].alert_type,
             signal |-> alerts[j].signal,
             timestamp |-> alerts[j].timestamp]]

\* _format_radar_blips(alerts).  angle is the fraction num/den of a degree,
\* (i * 360 / max(num_alerts, 1)) % 360; distance is in thousandths and
\* strength in hundredths.
FormatRadarBlips(alerts) ==
    LET shown == Prefix(alerts, MAX_BLIPS)
        n == IF Len(alerts) < MAX_BLIPS THEN Len(alerts) ELSE MAX_BLIPS
        den == IF n > 1 THEN n ELSE 1
    IN  [j \in 1..Len(shown) |->
            [symbol |-> shown[j].symbol,
             angle |-> [num |-> ((j - 1) * 360) % (360 * den), den |-> den],
             distance |-> 1000 - MagnitudeValue(shown[j].magnitude) * 6,
             strength |-> MagnitudeValue(shown[j].magnitude),
             color |-> BlipColor(shown[j].signal),
             type |-> shown[j].alert_type,
             signal |-> shown[j].signal,
             timestamp |-> shown[j].timestamp]]

CountSignal(alerts, signal) ==
    Cardinality({i \in 1..Len(alerts) : alerts[i].signal = signal})

\* a label that gives a tie to the bullish side, that the count property tells from
\* the label of the code
SentimentGe(bullish, bearish) ==
    IF bullish >= bearish THEN "bullish" ELSE "bearish"

Sentiment(bullish, bearish) ==
    IF bullish > bearish THEN "bullish"
    ELSE IF bearish > bullish THEN "bearish" ELSE "neutral"

\* the result dictionary of get_radar_data, built from the alerts at time t
RadarResult(alerts, t) ==
    LET IsCluster(a) == a.alert_type = "cluster"
    IN  [timestamp |-> t,
         summary |-> [total_signals |-> Len(alerts),
                      bullish |-> CountSignal(alerts, "bullish"),
                      bearish |-> CountSignal(alerts, "bearish"),
                      sentiment |-> Sentiment(CountSignal(alerts, "bullish"),
                                              CountSignal(alerts, "bearish"))],
         alerts |-> alerts,
         clusters |-> SelectSeq(alerts, IsCluster),
         blips |-> FormatRadarBlips(alerts)]

RadarDataKey(symbols) ==
    get_cache_key("radar_data", << <<"symbols", Str(SymbolsKey(symbols))>> >>)

\* get_radar_data(symbols) at time t
GetRadarDataF(symbols, mem, files, reqs, t) ==
    LET key == RadarDataKey(symbols)
        Built(wa, result) ==
            [result |-> Some(result), full |-> wa.full, raised |-> FALSE,
             origin |-> wa.origin,
             mem |-> SetCachedMem(wa.mem, key, result, t),
             files |-> SetCachedFiles(wa.files, key, result, t),
             reqs |-> wa.reqs]
        Fetched(wa) ==
            IF wa.raised
            THEN [result |-> Absent, full |-> <<>>, raised |-> TRUE, origin |-> "raised",
                  mem |-> wa.mem, files |-> wa.files, reqs |-> wa.reqs]
            ELSE Only({Built(wa, result) : result \in {RadarResult(wa.alerts, t)}})
        Served(got) ==
            IF got.raised
            THEN [result |-> Absent, full |-> <<>>, raised |-> TRUE, origin |-> "raised",
                  mem |-> got.mem, files |-> files, reqs |-> reqs]
            ELSE IF got.data.some
            THEN [result |-> got.data, full |-> <<>>, raised |-> FALSE,
                  origin |-> "cache", mem |-> got.mem, files |-> files, reqs |-> reqs]
            ELSE Only({Fetched(wa) :
                          wa \in {GetWhaleAlertsF(symbols, RADAR_LIMIT,
                                                  got.mem, files, reqs, t)}})
    IN  Only({Served(got) : got \in {GetCachedF(mem, files, key, t)}})

(***************************************************************************)
(* The environment                                                         *)
(***************************************************************************)
NoQuotes == EmptyMap
NoFeed == [ok |-> FALSE, feed |-> <<>>]
NoHist == [writes |-> EmptyMap, calls |-> EmptyMap, n |-> 0]

\* time passes: the clock moves to a later instant of the grid
Tick ==
    /\ \E t \in TimeGrid : t > now /\ now' = t
    /\ UNCHANGED <<memory_cache, cache_files, api_key, tx_source, quote_source, ret, hist>>

\* the process restarts: WhaleTracker.__init__ starts from an empty memory
\* map over the cache directory as the last process left it
Restart ==
    /\ memory_cache # EmptyMap
    /\ memory_cache' = EmptyMap
    /\ UNCHANGED <<now, cache_files, api_key, tx_source, quote_source, ret, hist>>

(***************************************************************************)
(* SpecCache: the TTL cache alone, under reads and writes of two keys      *)
(***************************************************************************)
CacheKeys == {"quote_AAPL", "quote_XYZ"}
CacheValues == {[market_cap |-> RawNum(10), shares_outstanding |-> RawNum(5)],
                [market_cap |-> RawNum(20), shares_outstanding |-> RawNum(0)]}

InitCache ==
    /\ now = 0
    /\ memory_cache = EmptyMap
    /\ cache_files = EmptyMap
    /\ api_key = FALSE
    /\ tx_source = NoFeed
    /\ quote_source = NoQuotes
    /\ ret = [op |-> "init"]
    /\ hist = NoHist

\* _set_cached(key, data)
SetCached(key, data) ==
    /\ memory_cache' = SetCachedMem(memory_cache, key, data, now)
    /\ cache_files' = SetCachedFiles(cache_files, key, data, now)
    /\ ret' = [op |-> "set", key |-> key, at |-> now]
    /\ hist' = [hist EXCEPT !.writes = Put(hist.writes, key, [data |-> data, at |-> now])]
    /\ UNCHANGED <<now, api_key, tx_source, quote_source>>

\* _get_cached(key)
GetCached(key) ==
    LET got == GetCachedF(memory_cache, cache_files, key, now)
    IN  /\ memory_cache' = got.mem
        /\ ret' = [op |-> "get", key |-> key, at |-> now, data |-> got.data,
                   tier |-> got.tier]
        /\ UNCHANGED <<now, cache_files, api_key, tx_source, quote_source, hist>>

CacheSet == \E key \in CacheKeys, data \in CacheValues : SetCached(key, data)
CacheGet == \E key \in CacheKeys : GetCached(key)

NextCache == CacheSet \/ CacheGet \/ Tick \/ Restart

SpecCache == InitCache /\ [][NextCache]_vars

MaxFeed == 4

\* the records a history is drawn from: two actors buying and selling today
\* for 100,000 or 200,000 dollars, and a third actor whose records are an
\* award, dated tomorrow, dated 30 and 31 days ago, undated or null-dated
ClusterKinds ==
    LET T(name, type, date, price) ==
            RawTrade("XYZ", name, type, date, RawNum(1000), RawNum(price))
    IN  << T("Ann", "P-Purchase", IsoDate(0), 10000),
           T("Ann", "S-Sale", IsoDate(0), 10000),
           T("Ann", "S-Sale", IsoDate(0), 20000),
           T("Bob", "P-Purchase", IsoDate(0), 10000),
           T("Bob", "S-Sale", IsoDate(0), 10000),
           T("Cy", "A-Award", IsoDate(0), 20000),
           T("Cy", "P-Purchase", IsoDate(1), 20000),
           T("Cy", "S-Sale", IsoDate(0 - DEFAULT_DAYS), 20000),
           T("Cy", "S-Sale", IsoDate(0 - DEFAULT_DAYS - 1), 20000),
           T("Cy", "P-Purchase", BadDate, 20000),
           T("Cy", "S-Sale", NullDate, 20000) >>

\* the histories: up to MaxFeed records, listed in the order of ClusterKinds
ClusterFeeds ==
    UNION {{[i \in 1..n |-> ClusterKinds[f[i]]] :
               f \in {g \in [1..n -> 1..Len(ClusterKinds)] :
                         \A i \in 1..(n - 1) : g[i] <= g[i + 1]}} :
           n \in 0..MaxFeed}

DetectDays == {DEFAULT_DAYS, 0}
DetectMinInsiders == {0, 1, DEFAULT_MIN_INSIDERS}

InitCluster ==
    /\ now \in {0, 1}
    /\ memory_cache = EmptyMap
    /\ cache_files = EmptyMap
    /\ api_key = TRUE
    /\ tx_source \in {[ok |-> TRUE, feed |-> f] : f \in ClusterFeeds}
    /\ quote_source = NoQuotes
    /\ ret = [op |-> "init"]
    /\ hist = NoHist

\* detect_cluster_activity(symbol, days, min_insiders)
DetectCluster(symbol, days, min_insiders) ==
    \E res \in {DetectClusterF(symbol, days, min_insiders,
                               memory_cache, cache_files, <<>>, now)} :
        /\ memory_cache' = res.mem
        /\ cache_files' = res.files
        /\ ret' = [op |-> "detect", symbol |-> symbol, days |-> days,
                   min_insiders |-> min_insiders, at |-> now,
                   cluster |-> res.cluster, raised |-> res.raised,
                   trades |-> res.trades, reqs |-> res.reqs]
        /\ UNCHANGED <<now, api_key, tx_source, quote_source, hist>>

DetectCall ==
    \E days \in DetectDays, min_insiders \in DetectMinInsiders :
        DetectCluster("XYZ", days, min_insiders)

NextCluster == DetectCall

SpecCluster == InitCluster /\ [][NextCluster]_vars

\* The two sides of the last detect call, from the history it fetched: the
\* buys and the sells among the trades dated on or after the cutoff.
KeptBuys == Buys(RecentTrades(ret.trades, ret.days, ret.at))
KeptSells == Sells(RecentTrades(ret.trades, ret.days, ret.at))
BothQualify ==
    /\ Cardinality(Reporters(KeptBuys)) >= ret.min_insiders
    /\ Cardinality(Reporters(KeptSells)) >= ret.min_insiders

\* The window as the specification states it, [now - days, now], and the two
\* sides within it.
InWindow(trade) ==
    /\ trade.transaction_date.k = "iso"
    /\ trade.transaction_date.d * DAY_SECONDS >= ret.at - ret.days * DAY_SECONDS
    /\ trade.transaction_date.d * DAY_SECONDS <= ret.at
WindowBuys == Buys(SelectSeq(ret.trades, InWindow))
WindowSells == Sells(SelectSeq(ret.trades, InWindow))

\* C5: detect_cluster_activity returns a cluster if and only if a side has
\* at least min_insiders distinct reporter names among the in-window
\* trades; the cluster's insider_count is the number of distinct names of
\* its own side and is at least min_insiders; otherwise it returns None.
C5_ClusterIffDistinctActors ==
    ret.op = "detect" =>
        LET buyers  == Reporters(WindowBuys)
            sellers == Reporters(WindowSells)
            qualifies == \/ Cardinality(buyers) >= ret.min_insiders
                         \/ Cardinality(sellers) >= ret.min_insiders
        IN  /\ ~ret.raised
            /\ ret.cluster.some <=> qualifies
            /\ ret.cluster.some =>
                 LET c == ret.cluster.v
                     own == IF c.activity_type = "cluster_buy" THEN buyers ELSE sellers
                 IN  c.insider_count = Cardinality(own)
                     /\ c.insider_count >= ret.min_insiders

C7_SellKeptOnTie ==
    (ret.op = "detect" /\ ret.cluster.some /\ BothQualify
        /\ SumValues(KeptSells) >= SumValues(KeptBuys)) =>
        ret.cluster.v.activity_type = "cluster_sell"

\* C7 as amended: when both sides qualify, the cluster returned is the
\* cluster_sell exactly when the sell aggregate is strictly greater than
\* the buy aggregate; at an exact tie it is the cluster_buy.
C7_SellOnlyWhenStrictlyLarger ==
    (ret.op = "detect" /\ ret.cluster.some /\ BothQualify) =>
        (ret.cluster.v.activity_type = "cluster_sell"
            <=> SumValues(KeptSells) > SumValues(KeptBuys))

\* both sides qualify with equal aggregates and the cluster_buy is returned
C7_Witness ==
    /\ ret.op = "detect"
    /\ ret.cluster.some
    /\ ret.min_insiders = DEFAULT_MIN_INSIDERS
    /\ BothQualify
    /\ SumValues(KeptSells) = SumValues(KeptBuys)
    /\ ret.cluster.v.activity_type = "cluster_buy"

\* C8: whatever contributes to a returned cluster is dated within
\* [now - days, now]: its insiders, its aggregate notional and its date
\* range are those of the in-window trades of its side.
C8_OnlyWindowContributes ==
    (ret.op = "detect" /\ ret.cluster.some) =>
        LET c == ret.cluster.v
            side == IF c.activity_type = "cluster_buy" THEN WindowBuys ELSE WindowSells
        IN  /\ c.insiders = Reporters(side)
            /\ c.total_value = SumValues(side)
            /\ \A i \in 1..Len(c.date_range) :
                  /\ c.date_range[i] * DAY_SECONDS >= ret.at - ret.days * DAY_SECONDS
                  /\ c.date_range[i] * DAY_SECONDS <= ret.at

(***************************************************************************)
(* SpecEnrich: _enrich_insider_trades over batches of trades               *)
(***************************************************************************)
MaxSymbols == 22

EnrichSymbol(i) == "S" \o ToString(i)

\* what the quote source can answer for a symbol: a failure, an empty list,
\* a quote, a quote whose marketCap is null
GoodQuote == RawQuote(RawNum(10), RawNum(5))
EnrichQuotes ==
    {Failure, Response(<<>>), Response(<<GoodQuote>>),
     Response(<<RawQuote(RawNull, RawNum(5))>>)}

\* a batch: one purchase for each of the symbols S1..Sn, and a second trade
\* of S1 when dup
EnrichFeed(n, dup) ==
    LET T(i) == RawTrade(EnrichSymbol(i), "Ann", "P-Purchase", IsoDate(0),
                         RawNum(1000), RawNum(10000))
    IN  [i \in 1..n |-> T(i)] \o (IF dup THEN <<T(1)>> ELSE <<>>)

\* small batches under every answer of the source; batches at and above the
\* cap under two sources
EnrichScenarios ==
    {[n |-> n, quotes |-> q] :
        n \in 1..3,
        q \in [{EnrichSymbol(1), EnrichSymbol(2), EnrichSymbol(3)} -> EnrichQuotes]}
    \cup
    {[n |-> n, quotes |-> q] :
        n \in QUOTE_SYMBOL_CAP..MaxSymbols,
        q \in {NoQuotes,
               [x \in {EnrichSymbol(1), EnrichSymbol(2), EnrichSymbol(3)} |->
                   IF x = EnrichSymbol(2) THEN Failure ELSE Response(<<GoodQuote>>)]}}

\* the quote of S1 as an earlier call cached it at time 0
CachedQuote == [market_cap |-> GoodQuote.marketCap,
                shares_outstanding |-> GoodQuote.sharesOutstanding]

InitEnrich ==
    /\ now \in {1, CACHE_DURATION}
    /\ api_key = TRUE
    /\ \E sc \in EnrichScenarios, dup \in BOOLEAN :
          /\ tx_source = [ok |-> TRUE, feed |-> EnrichFeed(sc.n, dup)]
          /\ quote_source = sc.quotes
    /\ \E cached \in BOOLEAN :
          /\ memory_cache = IF cached
                            THEN SetCachedMem(EmptyMap, "quote_" \o EnrichSymbol(1),
                                              CachedQuote, 0)
                            ELSE EmptyMap
          /\ cache_files = IF cached
                           THEN SetCachedFiles(EmptyMap, "quote_" \o EnrichSymbol(1),
                                               CachedQuote, 0)
                           ELSE EmptyMap
    /\ ret = [op |-> "init"]
    /\ hist = NoHist

\* _enrich_insider_trades(trades) on the trades built from the feed, the
\* set of symbols putting `keep` first.  A batch above the cap is enriched
\* once in a behaviour, a batch within the cap any number of times.
Enrich(keep) ==
    \E batch \in {BuildTrades(tx_source.feed)} :
      \E res \in {EnrichInsiderTrades(batch, keep, memory_cache, cache_files, <<>>, now)} :
        /\ memory_cache' = res.mem
        /\ cache_files' = res.files
        /\ ret' = [op |-> "enrich", at |-> now, batch |-> batch, keep |-> keep,
                   fresh |-> {sym \in Range(DistinctSymbols(batch, {})) :
                                 GetCachedF(memory_cache, cache_files,
                                            "quote_" \o sym, now).data.some},
                   trades |-> res.trades, raised |-> res.raised, reqs |-> res.reqs]
        /\ UNCHANGED <<now, api_key, tx_source, quote_source, hist>>

EnrichCall ==
    \E batch \in {BuildTrades(tx_source.feed)} :
        /\ \/ ret.op = "init"
           \/ Cardinality(Range(DistinctSymbols(batch, {}))) <= QUOTE_SYMBOL_CAP
        /\ \E keep \in SymbolChoices(batch) : Enrich(keep)

NextEnrich == EnrichCall

SpecEnrich == InitEnrich /\ [][NextEnrich]_vars

\* C9: one enrichment call issues at most QUOTE_SYMBOL_CAP quote requests,
\* at most one for any symbol, each for a symbol of the batch, and none for
\* a symbol whose quote is in the cache and still fresh.
C9_QuoteRequestsBounded ==
    ret.op = "enrich" =>
        /\ Len(ret.reqs) <= QUOTE_SYMBOL_CAP
        /\ \A i, j \in 1..Len(ret.reqs) : ret.reqs[i] = ret.reqs[j] => i = j
        /\ \A i \in 1..Len(ret.reqs) :
              \E k \in 1..Len(ret.batch) :
                  ret.reqs[i] = QuoteEndpoint(ret.batch[k].symbol)
        /\ \A sym \in ret.fresh : QuoteEndpoint(sym) \notin Range(ret.reqs)

\* a batch of more than QUOTE_SYMBOL_CAP symbols, one of them cached and
\* among the symbols kept: one request fewer than the cap
C9_Witness ==
    /\ ret.op = "enrich"
    /\ Cardinality(Range(DistinctSymbols(ret.batch, {}))) > QUOTE_SYMBOL_CAP
    /\ Len(ret.batch) > Cardinality(Range(DistinctSymbols(ret.batch, {})))
    /\ ret.fresh # {}
    /\ ret.fresh \subseteq ret.keep
    /\ Len(ret.reqs) = QUOTE_SYMBOL_CAP - 1

\* the symbol got no market data in the last call: it is beyond the cap, or
\* no fresh quote was cached and the quote source failed or returned nothing
NoMarketData(sym) ==
    \/ sym \notin ret.keep
    \/ /\ sym \notin ret.fresh
       /\ ~(QuoteResponse(sym).ok /\ QuoteResponse(sym).items # <<>>)

\* C10: the enrichment call returns every trade of the batch in the
\* original order, and every trade whose symbol got no market data keeps
\* market_cap, shares_outstanding, pct_of_outstanding and pct_of_market_cap
\* null and gets significance LOW.
C10_DegradesPerSymbol ==
    ret.op = "enrich" =>
        /\ ~ret.raised
        /\ Len(ret.trades) = Len(ret.batch)
        /\ \A i \in 1..Len(ret.trades) :
              LET before == ret.batch[i]
                  after  == ret.trades[i]
              IN  /\ after.symbol = before.symbol
                  /\ after.reporter_name = before.reporter_name
                  /\ after.total_value = before.total_value
                  /\ NoMarketData(before.symbol) =>
                        /\ ~after.market_cap.some
                        /\ ~after.shares_outstanding.some
                        /\ ~after.pct_of_outstanding.some
                        /\ ~after.pct_of_market_cap.some
                        /\ after.significance = "LOW"

(***************************************************************************)
(* Spec: the pipeline behind its cache, called as the endpoints call it    *)
(***************************************************************************)
MaxCalls == 2

\* the records of AAPL the transaction source holds: two purchases, an
\* award, and a sale below the floor of the symbol-scoped feed
PipelineFeed ==
    LET T(name, type, daysAgo, price) ==
            RawTrade("AAPL", name, type, IsoDate(0 - daysAgo), RawNum(1000),
                     RawNum(price))
    IN  << T("Ann", "P-Purchase", 0, 20000),
           T("Bob", "P-Purchase", 1, 15000),
           T("Cy", "A-Award", 0, 30000),
           T("Dee", "S-Sale", 2, 5000) >>

\* no API key (mock mode); a key and an upstream that fails every request;
\* a key and an upstream that answers
Scenarios ==
    { [api_key |-> FALSE, tx |-> NoFeed, quotes |-> NoQuotes],
      [api_key |-> TRUE, tx |-> NoFeed,
       quotes |-> [x \in {"AAPL"} |-> Failure]],
      [api_key |-> TRUE, tx |-> [ok |-> TRUE, feed |-> PipelineFeed],
       quotes |-> [x \in {"AAPL"} |-> Response(<<GoodQuote>>)]] }

Init ==
    /\ now = 0
    /\ memory_cache = EmptyMap
    /\ cache_files = EmptyMap
    /\ \E sc \in Scenarios :
          /\ api_key = sc.api_key
          /\ tx_source = sc.tx
          /\ quote_source = sc.quotes
    /\ ret = [op |-> "init"]
    /\ hist = NoHist

\* when the last completed call with these arguments was made and when a
\* call with these arguments last stored its result (-1: never)
PrevCall(id) ==
    IF id \in DOMAIN hist.calls THEN hist.calls[id] ELSE [called |-> -1, stored |-> -1]

\* the call under `id` wrote its result into the cache
Stored(res, id) ==
    /\ res.origin # "cache"
    /\ id \in DOMAIN res.mem
    /\ res.mem[id].cached_time = now

Noted(id, res) ==
    [hist EXCEPT !.n = @ + 1,
                 !.calls = Put(hist.calls, id,
                               [called |-> IF res.raised THEN PrevCall(id).called ELSE now,
                                stored |-> IF Stored(res, id) THEN now
                                           ELSE PrevCall(id).stored])]

\* get_insider_trades(symbol, limit)
CallGetInsiderTrades(symbol, limit) ==
    /\ hist.n < MaxCalls
    /\ \E id \in {InsiderTradesKey(symbol, limit)} :
       \E res \in {GetInsiderTradesF(symbol, limit, memory_cache, cache_files,
                                     <<>>, now)} :
          /\ memory_cache' = res.mem
          /\ cache_files' = res.files
          /\ ret' = [op |-> "get_insider_trades", id |-> id, at |-> now,
                     raised |-> res.raised, origin |-> res.origin,
                     reqs |-> res.reqs, stored |-> Stored(res, id),
                     prev |-> PrevCall(id), trades |-> res.trades]
          /\ hist' = Noted(id, res)
          /\ UNCHANGED <<now, api_key, tx_source, quote_source>>

\* GET /api/whale/alerts: get_whale_alerts(symbols, limit) and the counts
\* the endpoint reports with the alerts
CallGetWhaleAlerts(symbols, limit) ==
    /\ hist.n < MaxCalls
    /\ \E id \in {WhaleAlertsKey(symbols, limit)} :
       \E res \in {GetWhaleAlertsF(symbols, limit, memory_cache, cache_files,
                                   <<>>, now)} :
          /\ memory_cache' = res.mem
          /\ cache_files' = res.files
          /\ ret' = [op |-> "get_whale_alerts", id |-> id, at |-> now,
                     raised |-> res.raised, origin |-> res.origin,
                     reqs |-> res.reqs, stored |-> Stored(res, id),
                     prev |-> PrevCall(id), limit |-> limit,
                     alerts |-> res.alerts, full |-> res.full,
                     count |-> Len(res.alerts),
                     bullish_count |-> CountSignal(res.alerts, "bullish"),
                     bearish_count |-> CountSignal(res.alerts, "bearish")]
          /\ hist' = Noted(id, res)
          /\ UNCHANGED <<now, api_key, tx_source, quote_source>>

\* get_radar_data(symbols)
CallGetRadarData(symbols) ==
    /\ hist.n < MaxCalls
    /\ \E id \in {RadarDataKey(symbols)} :
       \E res \in {GetRadarDataF(symbols, memory_cache, cache_files, <<>>, now)} :
          /\ memory_cache' = res.mem
          /\ cache_files' = res.files
          /\ ret' = [op |-> "get_radar_data", id |-> id, at |-> now,
                     raised |-> res.raised, origin |-> res.origin,
                     reqs |-> res.reqs, stored |-> Stored(res, id),
                     prev |-> PrevCall(id), result |-> res.result,
                     full |-> res.full]
          /\ hist' = Noted(id, res)
          /\ UNCHANGED <<now, api_key, tx_source, quote_source>>

InsiderTradesCall ==
    \/ CallGetInsiderTrades(NoStr, MARKET_FETCH_LIMIT)
    \/ CallGetInsiderTrades(Str("AAPL"), SYMBOL_FETCH_LIMIT)

WhaleAlertsCall ==
    \E symbols \in {<<>>, <<"AAPL">>}, limit \in {1, RADAR_LIMIT} :
        CallGetWhaleAlerts(symbols, limit)

RadarDataCall == \E symbols \in {<<>>, <<"AAPL">>} : CallGetRadarData(symbols)

Next == InsiderTradesCall \/ WhaleAlertsCall \/ RadarDataCall \/ Tick \/ Restart

Spec == Init /\ [][Next]_vars

PipelineOps == {"get_insider_trades", "get_whale_alerts", "get_radar_data"}

\* C2 as claimed: a call made less than CACHE_DURATION seconds after a
\* completed call with the same arguments issues no request, whatever the
\* outcome of that call was.
C2_NoRequestAfterAnyCall ==
    (ret.op \in PipelineOps /\ ret.prev.called >= 0
        /\ ret.at - ret.prev.called < CACHE_DURATION) =>
        ret.reqs = <<>>

\* C2 as amended: a call stores its result exactly when it computed one
\* that the function caches (get_radar_data always, get_whale_alerts a
\* non-empty alert list, get_insider_trades a non-empty list built from an
\* upstream response; an empty result and the mock fallback are not
\* stored), and a call made less than CACHE_DURATION seconds after a call
\* with the same arguments stored its result issues no request.
C2_NoRequestAfterStore ==
    ret.op \in PipelineOps =>
        /\ (ret.prev.stored >= 0 /\ ret.at - ret.prev.stored < CACHE_DURATION) =>
              (ret.reqs = <<>> /\ ret.origin = "cache")
        /\ ret.stored <=>
              \/ ret.op = "get_radar_data" /\ ret.origin \notin {"cache", "raised"}
              \/ ret.op = "get_whale_alerts" /\ ret.origin = "computed"
                    /\ ret.alerts # <<>>
              \/ ret.op = "get_insider_trades" /\ ret.origin = "upstream"
                    /\ ret.trades # <<>>

\* with an API key, a call CACHE_DURATION - 1 seconds after the call that
\* stored the result is served without a request
C2_Witness ==
    /\ ret.op = "get_whale_alerts"
    /\ api_key
    /\ ret.prev.stored >= 0
    /\ ret.at - ret.prev.stored = CACHE_DURATION - 1
    /\ ret.reqs = <<>>

\* the number of alerts of a list that carry the signal
SignalCount(alerts, signal) ==
    Cardinality({i \in 1..Len(alerts) : alerts[i].signal = signal})

SentimentOf(bullish, bearish) ==
    IF bullish > bearish THEN "bullish"
    ELSE IF bearish > bullish THEN "bearish" ELSE "neutral"

\* C3 as claimed: the counts and the sentiment reported with a feed are
\* those of the full set of alerts generated, before the cut to the limit.
C3_CountsOverFullSet ==
    /\ (ret.op = "get_radar_data" /\ ret.origin = "computed") =>
          LET sm == ret.result.v.summary
          IN  /\ sm.bullish = SignalCount(ret.full, "bullish")
              /\ sm.bearish = SignalCount(ret.full, "bearish")
              /\ sm.sentiment = SentimentOf(SignalCount(ret.full, "bullish"),
                                            SignalCount(ret.full, "bearish"))
    /\ (ret.op = "get_whale_alerts" /\ ret.origin = "computed") =>
          /\ ret.bullish_count = SignalCount(ret.full, "bullish")
          /\ ret.bearish_count = SignalCount(ret.full, "bearish")

\* C3 as amended: the counts and the sentiment reported with a feed are
\* those of the alerts returned, after the sort and the cut to the limit;
\* they are the counts of the full set when it has at most `limit` alerts.
C3_CountsOverReturned ==
    /\ (ret.op = "get_radar_data" /\ ret.result.some) =>
          LET sm == ret.result.v.summary
              shown == ret.result.v.alerts
          IN  /\ Len(shown) <= RADAR_LIMIT
              /\ sm.total_signals = Len(shown)
              /\ sm.bullish = SignalCount(shown, "bullish")
              /\ sm.bearish = SignalCount(shown, "bearish")
              /\ sm.sentiment = SentimentOf(SignalCount(shown, "bullish"),
                                            SignalCount(shown, "bearish"))
              /\ (ret.origin = "computed" /\ Len(ret.full) <= RADAR_LIMIT) =>
                    /\ sm.bullish = SignalCount(ret.full, "bullish")
                    /\ sm.bearish = SignalCount(ret.full, "bearish")
    /\ (ret.op = "get_whale_alerts" /\ ~ret.raised) =>
          /\ ret.count = Len(ret.alerts)
          /\ ret.bullish_count = SignalCount(ret.alerts, "bullish")
          /\ ret.bearish_count = SignalCount(ret.alerts, "bearish")
          /\ (ret.origin = "computed" => Len(ret.alerts) <= ret.limit)
          /\ (ret.origin = "computed" /\ Len(ret.full) <= ret.limit) =>
                ret.bullish_count = SignalCount(ret.full, "bullish")

\* more alerts were generated than the radar shows, and the summary counts
\* fewer bullish alerts than were generated
C3_Witness ==
    /\ ret.op = "get_radar_data"
    /\ ret.origin = "computed"
    /\ Len(ret.full) > RADAR_LIMIT
    /\ ret.result.v.summary.total_signals = RADAR_LIMIT
    /\ ret.result.v.summary.bullish < SignalCount(ret.full, "bullish")

\* the alerts the last call returned
ReturnedAlerts ==
    IF ret.op = "get_whale_alerts" THEN ret.alerts
    ELSE IF ret.op = "get_radar_data" /\ ret.result.some THEN ret.result.v.alerts
    ELSE <<>>

\* the source of an alert is a buy (a buy transaction or a cluster_buy)
FromBuy(alert) ==
    IF alert.alert_type = "cluster"
    THEN alert.details.cluster[1].activity_type = "cluster_buy"
    ELSE is_buy(alert.details.trade[1])

FromSell(alert) ==
    IF alert.alert_type = "cluster"
    THEN alert.details.cluster[1].activity_type = "cluster_sell"
    ELSE is_sell(alert.details.trade[1])

\* C4: in every alert, signal is bullish only if the source is a buy
\* transaction or a cluster_buy and bearish only if it is a sell
\* transaction or a cluster_sell; a transaction that is neither yields no
\* bullish and no bearish alert.
C4_SignalFollowsSource ==
    \A i \in 1..Len(ReturnedAlerts) :
        LET alert == ReturnedAlerts[i]
        IN  /\ alert.signal = "bullish" => FromBuy(alert)
            /\ alert.signal = "bearish" => FromSell(alert)

(***************************************************************************)
(* SpecFaults: the pipeline on upstream answers with missing, null and     *)
(* unparseable fields                                                      *)
(***************************************************************************)
MaxRecords == 2

\* the records an answer is drawn from: a purchase, a sale reported with a
\* negative share count, a record without a share count, a record whose
\* price is no number, a record whose share count is no number, a sale
\* whose transactionDate is null, and a record whose share count is read as
\* inf
FaultKinds ==
    LET T(name, type, date, shares, price) ==
            RawTrade("XYZ", name, type, date, shares, price)
    IN  << T("Ann", "P-Purchase", IsoDate(0), RawNum(1000), RawNum(20000)),
           T("Bob", "S-Sale", IsoDate(0 - 1), RawNum(0 - 2000), RawNum(30000)),
           T("Cy", "P-Purchase", IsoDate(0), RawNull, RawNum(10000)),
           T("Dee", "S-Sale", IsoDate(0 - 1), RawNum(500), RawBad),
           T("Eve", "P-Purchase", IsoDate(0), RawBad, RawNull),
           T("Fay", "S-Sale", NullDate, RawNum(1000), RawNum(15000)),
           T("Gus", "P-Purchase", IsoDate(0), RawInf, RawNum(10000)) >>

\* the answers of the transaction source: no answer, or up to MaxRecords
\* records in any order
FaultFeeds ==
    UNION {{[i \in 1..n |-> FaultKinds[f[i]]] : f \in [1..n -> 1..Len(FaultKinds)]} :
           n \in 0..MaxRecords}

\* the answers of the quote source for the symbol: no answer, an empty list,
\* a quote, a quote without marketCap (read as 0) and a quote whose
\* marketCap is null
FaultQuotes ==
    {Failure, Response(<<>>), Response(<<GoodQuote>>),
     Response(<<RawQuote(RawNum(0), RawNum(5))>>),
     Response(<<RawQuote(RawNull, RawNum(5))>>)}

InitFaults ==
    /\ now = 1
    /\ memory_cache = EmptyMap
    /\ cache_files = EmptyMap
    /\ api_key = TRUE
    /\ tx_source \in {NoFeed} \cup {[ok |-> TRUE, feed |-> f] : f \in FaultFeeds}
    /\ quote_source \in {[x \in {"XYZ"} |-> q] : q \in FaultQuotes}
    /\ ret = [op |-> "init"]
    /\ hist = NoHist

FaultInsiderTradesCall ==
    \/ \E limit \in {1, SYMBOL_FETCH_LIMIT} : CallGetInsiderTrades(Str("XYZ"), limit)
    \/ CallGetInsiderTrades(NoStr, MARKET_FETCH_LIMIT)

FaultWhaleAlertsCall ==
    \E symbols \in {<<>>, <<"XYZ">>} : CallGetWhaleAlerts(symbols, RADAR_LIMIT)

FaultRadarDataCall == CallGetRadarData(<<"XYZ">>)

NextFaults ==
    FaultInsiderTradesCall \/ FaultWhaleAlertsCall \/ FaultRadarDataCall \/ Restart

SpecFaults == InitFaults /\ [][NextFaults]_vars

\* C11: for every outcome of the transaction source and of the quote source
\* (no answer, an empty answer, records or quotes with missing or null
\* fields), get_insider_trades, get_whale_alerts and get_radar_data return a
\* result and never raise; the radar result always has a blips list.
C11_NoUpstreamOutcomeIsFatal ==
    ret.op \in PipelineOps =>
        /\ ~ret.raised
        /\ ret.op = "get_radar_data" =>
              (ret.result.some /\ "blips" \in DOMAIN ret.result.v)

\* a share count or a price that is a number, or is missing or null
Parseable(raw) == raw.k \in {"num", "null"}

\* what a record contributes to the result: its reporter, the magnitude of
\* its share count and its price, zero standing for a missing or null value
KeptRecord(item) ==
    [reporter_name |-> item.reportingName,
     shares_transacted |-> IF item.securitiesTransacted.k = "num"
                           THEN Abs(item.securitiesTransacted.n) ELSE 0,
     price |-> IF item.price.k = "num" THEN item.price.n ELSE 0]

\* the records of the first `limit` whose share count and price parse, in
\* upstream order
KeptRecords(feed, limit) ==
    LET first == SubSeq(feed, 1, IF limit < Len(feed) THEN limit ELSE Len(feed))
        Ok(item) == Parseable(item.securitiesTransacted) /\ Parseable(item.price)
        kept == SelectSeq(first, Ok)
    IN  [i \in 1..Len(kept) |-> KeptRecord(kept[i])]

ShownTrades(trades) ==
    [i \in 1..Len(trades) |->
        [reporter_name |-> trades[i].reporter_name,
         shares_transacted |-> trades[i].shares_transacted,
         price |-> trades[i].price]]

\* C12: when get_insider_trades builds trades from an upstream response, a
\* record whose share count or price cannot be parsed as a number is
\* omitted, a record whose share count or price is missing or null is kept
\* with the value zero, and all remaining records among the first `limit`
\* appear in the result in upstream order.
C12_MalformedRecordsSkipped ==
    \A limit \in {1, SYMBOL_FETCH_LIMIT} :
        (/\ ret.op = "get_insider_trades"
         /\ ret.id = InsiderTradesKey(Str("XYZ"), limit)
         /\ tx_source.ok /\ tx_source.feed # <<>>) =>
            /\ ~ret.raised
            /\ ShownTrades(ret.trades) = KeptRecords(tx_source.feed, limit)

(***************************************************************************)
(* SpecDurable: the TTL cache over a durable tier that is damaged, locked  *)
(* and given values json.dump cannot write                                 *)
(***************************************************************************)
DurableKeys == {"quote_XYZ"}

\* a value json.dump writes, an object it rejects with TypeError and a list
\* that contains itself, which it rejects with ValueError
DurableValues ==
    {[data |-> [market_cap |-> RawNum(10), shares_outstanding |-> RawNum(5)],
      dump |-> "ok"],
     [data |-> [object |-> "datetime"], dump |-> "TypeError"],
     [data |-> [object |-> "cycle"], dump |-> "ValueError"]}

InitDurable ==
    /\ now = 0
    /\ memory_cache = EmptyMap
    /\ cache_files = EmptyMap
    /\ api_key = FALSE
    /\ tx_source = NoFeed
    /\ quote_source = NoQuotes
    /\ ret = [op |-> "init"]
    /\ hist = NoHist

\* the entry of a key in a tier, if there is one
EntryOf(tier, key) == IF key \in DOMAIN tier THEN Some(tier[key]) ELSE Absent

\* _set_cached(key, value)
SetCachedValue(key, value) ==
    \E res \in {SetCachedF(memory_cache, cache_files, key, value, now)} :
        /\ memory_cache' = res.mem
        /\ cache_files' = res.files
        /\ ret' = [op |-> "set", key |-> key, at |-> now, value |-> value,
                   raised |-> res.raised, file |-> EntryOf(cache_files, key),
                   kept |-> EntryOf(res.mem, key)]
        /\ hist' = [hist EXCEPT !.writes = Put(hist.writes, key,
                                               [data |-> value.data, at |-> now])]
        /\ UNCHANGED <<now, api_key, tx_source, quote_source>>

\* _get_cached(key)
GetCachedValue(key) ==
    \E got \in {GetCachedF(memory_cache, cache_files, key, now)} :
        /\ memory_cache' = got.mem
        /\ ret' = [op |-> "get", key |-> key, at |-> now, data |-> got.data,
                   tier |-> got.tier, raised |-> got.raised,
                   file |-> EntryOf(cache_files, key),
                   held |-> EntryOf(memory_cache, key),
                   kept |-> EntryOf(got.mem, key)]
        /\ UNCHANGED <<now, cache_files, api_key, tx_source, quote_source, hist>>

DurableSet == \E key \in DurableKeys, value \in DurableValues : SetCachedValue(key, value)
DurableGet == \E key \in DurableKeys : GetCachedValue(key)

\* the file of a key is overwritten from outside the process, by text that
\* is no JSON document or by bytes that are no text
Damage ==
    \E key \in DOMAIN cache_files, text \in {CorruptText, UndecodableText} :
        /\ cache_files[key].text # text
        /\ cache_files' = [cache_files EXCEPT ![key].text = text]
        /\ UNCHANGED <<now, memory_cache, api_key, tx_source, quote_source, ret, hist>>

\* the process loses, or is given back, the permission to open the file
Chmod ==
    \E key \in DOMAIN cache_files :
        /\ cache_files' = [cache_files EXCEPT ![key].locked = ~@]
        /\ UNCHANGED <<now, memory_cache, api_key, tx_source, quote_source, ret, hist>>

\* the process restarts: the memory map, and with it what the process
\* wrote there, is lost
DurableRestart ==
    /\ memory_cache # EmptyMap
    /\ memory_cache' = EmptyMap
    /\ hist' = NoHist
    /\ UNCHANGED <<now, cache_files, api_key, tx_source, quote_source, ret>>

NextDurable == DurableSet \/ DurableGet \/ Damage \/ Chmod \/ Tick \/ DurableRestart

SpecDurable == InitDurable /\ [][NextDurable]_vars

\* the durable entry a read found was corrupt or unreadable
FaultyEntry(file) == file.some /\ (file.v.locked \/ file.v.text.form # "json")

\* the memory entry a read found was fresh
FreshHeld(held, t) == held.some /\ t - held.v.cached_time < CACHE_DURATION

\* C13: _get_cached never raises and returns absent (or the fresh memory
\* value) when the durable entry is corrupt or unreadable; _set_cached
\* never raises when the durable store is unwritable or the value is not
\* serializable, and the value stays readable from the memory tier for the
\* TTL.
C13_DurableFaultsAreMisses ==
    /\ ret.op = "get" =>
          /\ ~ret.raised
          /\ FaultyEntry(ret.file) =>
                ret.data = IF FreshHeld(ret.held, ret.at) THEN Some(ret.held.v.data)
                           ELSE Absent
          /\ (ret.key \in DOMAIN hist.writes
                /\ ret.at - hist.writes[ret.key].at < CACHE_DURATION) =>
                ret.data = Some(hist.writes[ret.key].data)
    /\ ret.op = "set" =>
          /\ ~ret.raised
          /\ ret.kept = Some([data |-> ret.value.data, cached_time |-> ret.at])

(***************************************************************************)
(* SpecKeys: _get_cache_key over keyword arguments written in any order    *)
(***************************************************************************)
MaxKwargs == 3

\* the keyword arguments of a call: up to MaxKwargs of the names, each once,
\* in any order, each with a value or None
KwargLists ==
    UNION {{[i \in 1..n |-> <<KwNames[f[i]], g[i]>>] :
               f \in {h \in [1..n -> 1..Len(KwNames)] :
                         \A i, j \in 1..n : i # j => h[i] # h[j]},
               g \in [1..n -> {NoStr, Str("10")}]} :
           n \in 0..MaxKwargs}

InitKeys ==
    /\ now = 0
    /\ memory_cache = EmptyMap
    /\ cache_files = EmptyMap
    /\ api_key = FALSE
    /\ tx_source = NoFeed
    /\ quote_source = NoQuotes
    /\ ret \in {[op |-> "call", name |-> "whale_alerts", kwargs |-> kw] :
                   kw \in KwargLists}
    /\ hist = NoHist

\* _get_cache_key(name, **kwargs) on the arguments of the call
CacheKeyCall ==
    /\ ret.op = "call"
    /\ ret' = [op |-> "key", name |-> ret.name, kwargs |-> ret.kwargs,
               key |-> get_cache_key(ret.name, ret.kwargs)]
    /\ UNCHANGED <<now, memory_cache, cache_files, api_key, tx_source,
                   quote_source, hist>>

NextKeys == CacheKeyCall

SpecKeys == InitKeys /\ [][NextKeys]_vars

\* the arguments of a call that have a value, whatever their order
GivenArgs(kwargs) ==
    {<<kwargs[i][1], kwargs[i][2].v>> : i \in {j \in 1..Len(kwargs) : kwargs[j][2].some}}

\* C14: _get_cache_key(name, **kwargs) returns the same key for every
\* insertion order of the same keyword arguments, and the same key whether
\* an argument is passed as None or omitted.
C14_KeyIsCanonical ==
    ret.op = "key" =>
        \A other \in KwargLists :
            GivenArgs(other) = GivenArgs(ret.kwargs) =>
                get_cache_key(ret.name, other) = ret.key

\* the key of a call that wrote symbols before limit and passed symbol=None
C14_Witness ==
    /\ ret.op = "key"
    /\ ret.kwargs = << <<"symbols", Str("10")>>, <<"symbol", NoStr>>,
                       <<"limit", Str("10")>> >>
    /\ ret.key = "whale_alerts_limit=10_symbols=10"

(***************************************************************************)
(* SpecFeed: get_whale_alerts over answers whose trades lie around the     *)
(* notional floors and share timestamps                                    *)
(***************************************************************************)
MaxAlertFeed == 2

\* the records an answer is drawn from: purchases of today at and just
\* below the floor of the symbol-scoped feed, sales at and just below the
\* floor of the market-wide feed, an award of 10,000,000 dollars dated
\* yesterday and a purchase whose date is no date
FeedKinds ==
    LET T(name, type, date, price) ==
            RawTrade("XYZ", name, type, date, RawNum(1000), RawNum(price))
    IN  << T("Ann", "P-Purchase", IsoDate(0), 10000),
           T("Bob", "P-Purchase", IsoDate(0), 9999),
           T("Cy", "S-Sale", IsoDate(0 - 1), 50000),
           T("Dee", "S-Sale", IsoDate(0), 49999),
           T("Eve", "A-Award", IsoDate(0 - 1), 1000000),
           T("Fay", "P-Purchase", BadDate, 20000) >>

\* the answers: up to MaxAlertFeed records in any order
AlertFeeds ==
    UNION {{[i \in 1..n |-> FeedKinds[f[i]]] : f \in [1..n -> 1..Len(FeedKinds)]} :
           n \in 0..MaxAlertFeed}

\* mock mode, or a key and a transaction source that answers
InitFeed ==
    /\ now = 0
    /\ memory_cache = EmptyMap
    /\ cache_files = EmptyMap
    /\ \/ api_key = FALSE /\ tx_source = NoFeed
       \/ api_key = TRUE /\ tx_source \in {[ok |-> TRUE, feed |-> f] : f \in AlertFeeds}
    /\ quote_source = NoQuotes
    /\ ret = [op |-> "init"]
    /\ hist = NoHist

FeedAlertsCall ==
    \E symbols \in {<<>>, <<"XYZ">>}, limit \in {0, 2, RADAR_LIMIT} :
        CallGetWhaleAlerts(symbols, limit)

NextFeed == FeedAlertsCall \/ Restart

SpecFeed == InitFeed /\ [][NextFeed]_vars

\* the place of the k-th alert emitted in the stably sorted feed: after the
\* alerts with a later timestamp and the alerts emitted before it with the
\* same timestamp
PlaceOf(full, k) ==
    1 + Cardinality({j \in 1..Len(full) :
                        TsRank(full[j].timestamp) > TsRank(full[k].timestamp)})
      + Cardinality({j \in 1..(k - 1) :
                        TsRank(full[j].timestamp) = TsRank(full[k].timestamp)})

\* C15: the list returned by get_whale_alerts(symbols, limit) with
\* limit >= 0 has at most `limit` alerts, is in non-increasing timestamp
\* order, keeps alerts with equal timestamps in the order they were emitted,
\* and is exactly the first `limit` elements of the stably sorted full alert
\* set.
C15_FeedOrdering ==
    (ret.op = "get_whale_alerts" /\ ~ret.raised) =>
        /\ Len(ret.alerts) <= ret.limit
        /\ Len(ret.alerts) = IF ret.limit < Len(ret.full) THEN ret.limit ELSE Len(ret.full)
        /\ \A i \in 1..(Len(ret.alerts) - 1) :
              TsRank(ret.alerts[i].timestamp) >= TsRank(ret.alerts[i + 1].timestamp)
        /\ \A k \in 1..Len(ret.full) :
              PlaceOf(ret.full, k) <= Len(ret.alerts) =>
                  ret.alerts[PlaceOf(ret.full, k)] = ret.full[k]

\* a feed cut to two alerts in which an alert emitted later than another
\* with the same timestamp comes after it, and an alert with a later
\* timestamp emitted last comes first
C15_Witness ==
    /\ ret.op = "get_whale_alerts"
    /\ ret.origin = "computed"
    /\ ret.limit = 2
    /\ Len(ret.full) = 3
    /\ TsRank(ret.full[1].timestamp) < TsRank(ret.full[3].timestamp)
    /\ TsRank(ret.full[2].timestamp) = TsRank(ret.full[3].timestamp)
    /\ ret.full[2] # ret.full[3]
    /\ ret.alerts = <<ret.full[2], ret.full[3]>>

(***************************************************************************)
(* SpecRepeat: get_whale_alerts called again with the same arguments while *)
(* the clock runs and the process restarts, the upstream data unchanged    *)
(***************************************************************************)
\* the answers of the transaction source: a purchase of today, a sale of
\* yesterday and a purchase dated 30 days before the start (the first day
\* of the detector's window at the start) or 29 days before it
RepeatFeeds ==
    {<< RawTrade("XYZ", "Ann", "P-Purchase", IsoDate(0), RawNum(1000), RawNum(20000)),
        RawTrade("XYZ", "Bob", "S-Sale", IsoDate(0 - 1), RawNum(1000), RawNum(30000)),
        RawTrade("XYZ", "Eve", "P-Purchase", IsoDate(0 - d), RawNum(1000), RawNum(15000)) >> :
     d \in {DEFAULT_DAYS, DEFAULT_DAYS - 1}}

InitRepeat ==
    /\ now = 0
    /\ memory_cache = EmptyMap
    /\ cache_files = EmptyMap
    /\ \/ api_key = FALSE /\ tx_source = NoFeed
       \/ api_key = TRUE /\ tx_source \in {[ok |-> TRUE, feed |-> f] : f \in RepeatFeeds}
    /\ quote_source = [x \in {"XYZ"} |-> Response(<<GoodQuote>>)]
    /\ ret = [op |-> "init"]
    /\ hist = [n |-> 0, calls |-> EmptyMap, restarts |-> 0]

\* what the last call with these arguments returned, when it was made and
\* by which process
LastResult(id) == IF id \in DOMAIN hist.calls THEN Some(hist.calls[id]) ELSE Absent

\* when, and by which process, the sequence that a call returns was
\* computed: by the call itself, or by the call that made the cache entry
MadeBy(id, origin) ==
    IF origin = "cache" /\ id \in DOMAIN hist.calls
    THEN hist.calls[id].made
    ELSE [at |-> now, process |-> hist.restarts]

\* get_whale_alerts(symbols, limit), its result kept for the next call
RepeatGetWhaleAlerts(symbols, limit) ==
    /\ hist.n < MaxCalls
    /\ \E id \in {WhaleAlertsKey(symbols, limit)} :
       \E res \in {GetWhaleAlertsF(symbols, limit, memory_cache, cache_files,
                                   <<>>, now)} :
          /\ memory_cache' = res.mem
          /\ cache_files' = res.files
          /\ ret' = [op |-> "get_whale_alerts", id |-> id, at |-> now,
                     raised |-> res.raised, origin |-> res.origin,
                     alerts |-> res.alerts, process |-> hist.restarts,
                     made |-> MadeBy(id, res.origin), prev |-> LastResult(id)]
          /\ hist' = [hist EXCEPT !.n = @ + 1,
                                  !.calls = Put(hist.calls, id,
                                                [alerts |-> res.alerts, at |-> now,
                                                 process |-> hist.restarts,
                                                 made |-> MadeBy(id, res.origin)])]
          /\ UNCHANGED <<now, api_key, tx_source, quote_source>>

RepeatCall ==
    \E symbols \in {<<>>, <<"XYZ">>} : RepeatGetWhaleAlerts(symbols, RADAR_LIMIT)

\* the process restarts: a new process over the same cache directory
RepeatRestart ==
    /\ memory_cache # EmptyMap
    /\ memory_cache' = EmptyMap
    /\ hist' = [hist EXCEPT !.restarts = @ + 1]
    /\ UNCHANGED <<now, cache_files, api_key, tx_source, quote_source, ret>>

NextRepeat == RepeatCall \/ Tick \/ RepeatRestart

SpecRepeat == InitRepeat /\ [][NextRepeat]_vars

\* the records of the upstream data dated within the detector's window at t
WindowAt(t) ==
    {i \in 1..Len(tx_source.feed) :
        /\ tx_source.feed[i].transactionDate.k = "iso"
        /\ tx_source.feed[i].transactionDate.d * DAY_SECONDS
              >= t - DEFAULT_DAYS * DAY_SECONDS}

TierOf(value) ==
    IF value >= 10000000 THEN "massive"
    ELSE IF value >= 1000000 THEN "large"
    ELSE IF value >= 100000 THEN "significant"
    ELSE "minor"

\* what the transaction source, or the mock fallback, hands to a scan of
\* `symbol` ("" for the market-wide scan): reporter and notional value of
\* each trade, in order
FetchedFacts(symbol) ==
    IF api_key /\ tx_source.ok /\ tx_source.feed # <<>>
    THEN [i \in 1..Len(tx_source.feed) |->
             [reporter_name |-> tx_source.feed[i].reportingName,
              total_value |-> (Abs(tx_source.feed[i].securitiesTransacted.n)
                               * tx_source.feed[i].price.n) \div 100]]
    ELSE LET Same(row) == symbol = "" \/ row[1] = symbol
             rows == SelectSeq(MockRows, Same)
         IN  [i \in 1..Len(rows) |->
                 [reporter_name |-> rows[i][2], total_value |-> rows[i][7]]]

\* one alert expected for each trade at or above the floor, with the tier
\* of the trade
ExpectedTradeAlerts(symbol, floor) ==
    LET AtFloor(f) == f.total_value >= floor
        big == SelectSeq(FetchedFacts(symbol), AtFloor)
    IN  [i \in 1..Len(big) |->
            [reporter_name |-> big[i].reporter_name,
             total_value |-> big[i].total_value,
             magnitude |-> TierOf(big[i].total_value)]]

\* the transaction alerts of a feed, in order
TransactionAlerts(alerts) ==
    LET Insider(a) == a.alert_type = "insider"
        ins == SelectSeq(alerts, Insider)
    IN  [i \in 1..Len(ins) |->
            [reporter_name |-> ins[i].details.trade[1].reporter_name,
             total_value |-> ins[i].details.trade[1].total_value,
             magnitude |-> ins[i].magnitude]]

\* C17: before truncation, the symbol-scoped feed contains exactly one
\* transaction alert for each fetched trade with total_value >= 100,000 and
\* none for a trade below it, and the market-wide feed does the same with
\* the floor 500,000; each such alert carries the trade's magnitude tier (a
\* 54,500,000 sale yields magnitude massive and signal bearish).
C17_NotionalFloor ==
    (ret.op = "get_whale_alerts" /\ ret.origin = "computed") =>
        /\ ret.id = WhaleAlertsKey(<<"XYZ">>, ret.limit) =>
              TransactionAlerts(ret.full) = ExpectedTradeAlerts("XYZ", 100000)
        /\ ret.id = WhaleAlertsKey(<<>>, ret.limit) =>
              TransactionAlerts(ret.full) = ExpectedTradeAlerts("", 500000)
        /\ \A i \in 1..Len(ret.full) :
              (/\ ret.full[i].alert_type = "insider"
               /\ ret.full[i].details.trade[1].total_value = 54500000
               /\ ret.full[i].details.trade[1].transaction_type = "S-Sale") =>
                  (ret.full[i].magnitude = "massive" /\ ret.full[i].signal = "bearish")

\* a symbol-scoped feed computed from a purchase of exactly 100,000 dollars
\* and one of 99,990 dollars: one alert, for the first
C17_Witness ==
    /\ ret.op = "get_whale_alerts"
    /\ ret.origin = "computed"
    /\ ret.id = WhaleAlertsKey(<<"XYZ">>, ret.limit)
    /\ Len(tx_source.feed) = 2
    /\ tx_source.feed[1].reportingName = "Bob"
    /\ tx_source.feed[2].reportingName = "Ann"
    /\ TransactionAlerts(ret.full) =
          <<[reporter_name |-> "Ann", total_value |-> 100000,
             magnitude |-> "significant"]>>

\* |shares x price| in whole dollars, the price being in cents
DollarsOf(shares, price) ==
    LET s == IF shares < 0 THEN 0 - shares ELSE shares
        p == IF price < 0 THEN 0 - price ELSE price
    IN  s * (p \div 100) + (s * (p % 100)) \div 100

TierPctOut ==
    {NoNum} \cup {Num(p) : p \in {0, 99999, 100000, 100001, 500000, 500001,
                                  1000000, 1000001, 1500000}}

\* percent of the market capitalization, in millionths of a percent, or None
TierPctCap ==
    {NoNum} \cup {Num(p) : p \in {0, 200000, 200001, 500000, 500001}}

\* notional values in cents
TierCents ==
    {0, 5000000, 9999999, 10000000, 99999999, 100000000, 100000001,
     999999999, 1000000000, 1500000000}

\* the trade of `cents` / 100 dollars with the two context metrics; the
\* model keeps the whole dollars of a notional value, which every threshold
\* of signal_strength, a whole number of dollars, compares alike
TierTrade(cents, pct_out, pct_cap) ==
    [InsiderTrade("XYZ", "Ann", "P-Purchase", IsoDate(0), 1, cents, cents \div 100)
        EXCEPT !.pct_of_outstanding = pct_out, !.pct_of_market_cap = pct_cap]

InitTiers ==
    /\ now = 0
    /\ memory_cache = EmptyMap
    /\ cache_files = EmptyMap
    /\ api_key = FALSE
    /\ tx_source = NoFeed
    /\ quote_source = NoQuotes
    /\ ret \in {[op |-> "trade", cents |-> c, trade |-> TierTrade(c, o, m)] :
                   c \in TierCents, o \in TierPctOut, m \in TierPctCap}
    /\ hist = NoHist

\* trade.calculate_significance() and trade.signal_strength
TiersCall ==
    /\ ret.op = "trade"
    /\ ret' = [op |-> "tiers", cents |-> ret.cents, trade |-> ret.trade,
               significance |-> calculate_significance(ret.trade),
               strength |-> signal_strength(ret.trade)]
    /\ UNCHANGED <<now, memory_cache, cache_files, api_key, tx_source,
                   quote_source, hist>>

NextTiers == TiersCall

SpecTiers == InitTiers /\ [][NextTiers]_vars

\* the reference tier of (pct_out, pct_cap), each a number of millionths of
\* a percent or None
ReferenceTier(pct_out, pct_cap) ==
    LET o == IF pct_out = NoNum THEN 0 ELSE pct_out.v
        c == IF pct_cap = NoNum THEN 0 ELSE pct_cap.v
    IN  CASE o > 1000000 \/ c > 500000 -> "CRITICAL"
          [] ~(o > 1000000 \/ c > 500000) /\ (o > 500000 \/ c > 200000) -> "HIGH"
          [] ~(o > 500000 \/ c > 200000) /\ ~(c > 500000) /\ o > 100000 -> "MEDIUM"
          [] OTHER -> "LOW"

\* C19: the significance tier equals the reference function of
\* (pct_of_outstanding, pct_of_market_cap) only, a null counting as 0:
\* CRITICAL if pct_out > 1.0 or pct_cap > 0.5, else HIGH if pct_out > 0.5 or
\* pct_cap > 0.2, else MEDIUM if pct_out > 0.1, else LOW, every threshold
\* strict; the tier does not depend on the magnitude tier.
C19_SignificanceTier ==
    ret.op = "tiers" =>
        /\ ret.significance = ReferenceTier(ret.trade.pct_of_outstanding,
                                            ret.trade.pct_of_market_cap)
        /\ \A c \in TierCents :
              calculate_significance(
                  TierTrade(c, ret.trade.pct_of_outstanding,
                            ret.trade.pct_of_market_cap)) = ret.significance
        /\ ret.trade.pct_of_outstanding = Num(1500000) => ret.significance = "CRITICAL"

\* exactly 1.0 % of the shares outstanding, no market capitalization known,
\* on a minor trade: HIGH, not CRITICAL
C19_Witness ==
    /\ ret.op = "tiers"
    /\ ret.trade.pct_of_outstanding = Num(1000000)
    /\ ret.trade.pct_of_market_cap = NoNum
    /\ ret.strength = "minor"
    /\ ret.significance = "HIGH"

\* C20: the magnitude tier boundaries are closed on the low end:
\* signal_strength is massive iff total_value >= 10,000,000, large iff
\* 1,000,000 <= total_value < 10,000,000, significant iff
\* 100,000 <= total_value < 1,000,000, and minor otherwise; exactly
\* 10,000,000 is massive and 9,999,999.99 is large.  (ret.cents is the
\* notional value in cents.)
C20_MagnitudeBoundaries ==
    ret.op = "tiers" =>
        /\ ret.strength = "massive" <=> ret.cents >= 1000000000
        /\ ret.strength = "large" <=>
              (100000000 <= ret.cents /\ ret.cents < 1000000000)
        /\ ret.strength = "significant" <=>
              (10000000 <= ret.cents /\ ret.cents < 100000000)
        /\ ret.strength = "minor" <=> ret.cents < 10000000
        /\ ret.cents = 1000000000 => ret.strength = "massive"
        /\ ret.cents = 999999999 => ret.strength = "large"

\* a trade of exactly 10,000,000 dollars is massive
C20_Witness ==
    /\ ret.op = "tiers"
    /\ ret.cents = 1000000000
    /\ ret.trade.total_value = 10000000
    /\ ret.strength = "massive"

(***************************************************************************)
(* SpecBlips: _format_radar_blips over alert lists of every length up to   *)
(* MaxBlipAlerts, past the limit of 20 blips, and every magnitude          *)
(***************************************************************************)
MaxBlipAlerts == 22

\* symbol, alert_type, signal and magnitude of the alerts drawn
BlipKinds ==
    << <<"AAA", "insider", "bullish", "massive">>,
       <<"BBB", "insider", "bearish", "large">>,
       <<"CCC", "cluster", "bullish", "significant">>,
       <<"DDD", "cluster", "bearish", "moderate">>,
       <<"EEE", "insider", "neutral", "minor">>,
       <<"FFF", "insider", "bullish", "huge">> >>

\* WhaleAlert(...) of kind k, dated i days ago
BlipAlert(k, i) ==
    [symbol |-> BlipKinds[k][1], alert_type |-> BlipKinds[k][2],
     signal |-> BlipKinds[k][3], magnitude |-> BlipKinds[k][4],
     timestamp |-> IsoDate(0 - i)]

BlipAlertLists ==
    {[i \in 1..n |-> BlipAlert(((i * step + off) % Len(BlipKinds)) + 1, i)] :
        n \in 0..MaxBlipAlerts, off \in 0..(Len(BlipKinds) - 1), step \in {1, 5}}

InitBlips ==
    /\ now = 0
    /\ memory_cache = EmptyMap
    /\ cache_files = EmptyMap
    /\ api_key = FALSE
    /\ tx_source = NoFeed
    /\ quote_source = NoQuotes
    /\ ret \in {[op |-> "alerts", alerts |-> al] : al \in BlipAlertLists}
    /\ hist = NoHist

\* self._format_radar_blips(alerts)
FormatBlipsCall ==
    /\ ret.op = "alerts"
    /\ ret' = [op |-> "blips", alerts |-> ret.alerts,
               blips |-> FormatRadarBlips(ret.alerts)]
    /\ UNCHANGED <<now, memory_cache, cache_files, api_key, tx_source,
                   quote_source, hist>>

NextBlips == FormatBlipsCall

SpecBlips == InitBlips /\ [][NextBlips]_vars

\* C21: for every alert list, _format_radar_blips returns exactly
\* min(len(alerts), 20) blips, blip i is derived from alert i (same symbol,
\* signal, type, timestamp), its angle is i x 360 / N with N the number of
\* blips and lies in [0, 360), and no two blips of one projection have the
\* same angle.
C21_ProjectionBoundAndAngles ==
    ret.op = "blips" =>
        LET N == Len(ret.blips)
        IN  /\ N = IF Len(ret.alerts) < 20 THEN Len(ret.alerts) ELSE 20
            /\ \A i \in 1..N :
                  /\ ret.blips[i].symbol = ret.alerts[i].symbol
                  /\ ret.blips[i].signal = ret.alerts[i].signal
                  /\ ret.blips[i].type = ret.alerts[i].alert_type
                  /\ ret.blips[i].timestamp = ret.alerts[i].timestamp
                  /\ ret.blips[i].angle.den > 0
                  /\ ret.blips[i].angle.num * N = (i - 1) * 360 * ret.blips[i].angle.den
                  /\ 0 <= ret.blips[i].angle.num
                  /\ ret.blips[i].angle.num < 360 * ret.blips[i].angle.den
            /\ \A i, j \in 1..N :
                  i # j => ret.blips[i].angle.num * ret.blips[j].angle.den
                             # ret.blips[j].angle.num * ret.blips[i].angle.den

\* 22 alerts projected on 20 blips, the last of them at 342 degrees
C21_Witness ==
    /\ ret.op = "blips"
    /\ Len(ret.alerts) = 22
    /\ Len(ret.blips) = 20
    /\ ret.blips[20].angle = [num |-> 6840, den |-> 20]
    /\ ret.blips[20].timestamp = IsoDate(0 - 20)

\* the weight of a magnitude in the projection's table, in hundredths
TableWeight(magnitude) ==
    CASE magnitude = "massive" -> 100
      [] magnitude = "large" -> 80
      [] magnitude = "significant" -> 60
      [] magnitude \in {"moderate", "minor"} -> 40
      [] OTHER -> 50

\* the magnitudes from the lowest to the highest
MagnitudeRank(magnitude) ==
    CASE magnitude = "minor" -> 0
      [] magnitude = "moderate" -> 1
      [] magnitude = "significant" -> 2
      [] magnitude = "large" -> 3
      [] magnitude = "massive" -> 4

\* C22: for every alert given to _format_radar_blips, the blip's strength
\* equals the table weight of the alert's magnitude (massive 1.0, large 0.8,
\* significant 0.6, moderate 0.4, minor 0.4, any other value 0.5) and its
\* distance equals 1.0 - 0.6 x strength, so a higher-magnitude alert is
\* never farther from the centre than a lower-magnitude one.
C22_ProjectionWeights ==
    ret.op = "blips" =>
        /\ \A i \in 1..Len(ret.blips) :
              /\ ret.blips[i].strength = TableWeight(ret.alerts[i].magnitude)
              /\ ret.blips[i].distance = 1000 - 6 * ret.blips[i].strength
        /\ \A i, j \in 1..Len(ret.blips) :
              (/\ ret.alerts[i].magnitude \in {"minor", "moderate", "significant", "large", "massive"}
               /\ ret.alerts[j].magnitude \in {"minor", "moderate", "significant", "large", "massive"}
               /\ MagnitudeRank(ret.alerts[i].magnitude)
                     > MagnitudeRank(ret.alerts[j].magnitude)) =>
                  ret.blips[i].distance <= ret.blips[j].distance

(***************************************************************************)
(* SpecRace: two requests get_insider_trades("XYZ", 10) that run           *)
(* concurrently on one tracker.  A request takes its steps one at a time   *)
(* (the read of the cache, the fetch with the build and the enrichment,    *)
(* the memory write of _set_cached, its open(cache_file, 'w'), which       *)
(* truncates the file, and the json.dump closed by the with block), and    *)
(* the steps of the two requests interleave in every order.  hist.race     *)
(* holds the position and the result of each request.                      *)
(***************************************************************************)
MaxReads == 2

Racers == {1, 2}
RaceSymbol == Str("XYZ")
RaceKey == InsiderTradesKey(RaceSymbol, SYMBOL_FETCH_LIMIT)

\* an entry written CACHE_DURATION seconds before the race: expired
StaleTrades == BuildTrades(<<FaultKinds[2]>>)
StaleMemory == SetCachedMem(EmptyMap, RaceKey, StaleTrades, 0 - CACHE_DURATION)
StaleFiles == SetCachedFiles(EmptyMap, RaceKey, StaleTrades, 0 - CACHE_DURATION)

RaceFeeds == {<<FaultKinds[1]>>, <<FaultKinds[1], FaultKinds[2]>>}

RaceQuotes ==
    {Failure, Response(<<GoodQuote>>), Response(<<RawQuote(RawNull, RawNum(5))>>)}

Waiting == [pc |-> "start", trades |-> <<>>, raised |-> FALSE, origin |-> ""]

InitRace ==
    /\ now = 0
    /\ \/ memory_cache = EmptyMap /\ cache_files = EmptyMap
       \/ memory_cache = StaleMemory /\ cache_files = StaleFiles
       \/ memory_cache = EmptyMap /\ cache_files = StaleFiles
    /\ api_key = TRUE
    /\ tx_source \in {NoFeed} \cup {[ok |-> TRUE, feed |-> f] : f \in RaceFeeds}
    /\ quote_source \in {[x \in {"XYZ"} |-> q] : q \in RaceQuotes}
    /\ ret = [op |-> "init"]
    /\ hist = [race |-> [r \in Racers |-> Waiting], reads |-> 0, finished |-> 0]

\* the request returns (or raises)
Returned(trades, raised, origin) ==
    [pc |-> "done", trades |-> trades, raised |-> raised, origin |-> origin]

\* the race state after request r moved to `next`; the time at which the
\* last request finished is kept
Moved(r, next) ==
    [hist EXCEPT !.race[r] = next,
                 !.finished = IF \A q \in Racers : q = r \/ hist.race[q].pc = "done"
                              THEN now ELSE @]

\* cached_data = self._get_cached(cache_key) and the return of a hit
RaceLookup(r) ==
    /\ hist.race[r].pc = "start"
    /\ \E got \in {GetCachedF(memory_cache, cache_files, RaceKey, now)} :
          /\ memory_cache' = got.mem
          /\ hist' = Moved(r, IF got.raised THEN Returned(<<>>, TRUE, "raised")
                              ELSE IF got.data.some
                              THEN Returned(got.data.v, FALSE, "cache")
                              ELSE [hist.race[r] EXCEPT !.pc = "miss"])
    /\ UNCHANGED <<now, cache_files, api_key, tx_source, quote_source, ret>>

\* the request to the transaction source, the loop that builds the trades
\* and _enrich_insider_trades, up to "if trades:"
RaceCompute(r) ==
    /\ hist.race[r].pc = "miss"
    /\ \E resp \in {TxResponse(RaceSymbol)} :
          IF ~(api_key /\ resp.ok /\ resp.items # <<>>)
          THEN /\ hist' = Moved(r, Returned(MockInsiderTrades(RaceSymbol.v, now),
                                            FALSE, "mock"))
               /\ UNCHANGED <<memory_cache, cache_files>>
          ELSE IF BuildRaises(Prefix(resp.items, SYMBOL_FETCH_LIMIT))
          THEN /\ hist' = Moved(r, Returned(<<>>, TRUE, "raised"))
               /\ UNCHANGED <<memory_cache, cache_files>>
          ELSE \E built \in {BuildTrades(Prefix(resp.items, SYMBOL_FETCH_LIMIT))} :
               \E enr \in {EnrichInsiderTrades(built,
                                               CHOOSE c \in SymbolChoices(built) : TRUE,
                                               memory_cache, cache_files, <<>>, now)} :
                  /\ memory_cache' = enr.mem
                  /\ cache_files' = enr.files
                  /\ hist' = Moved(r, IF enr.raised THEN Returned(<<>>, TRUE, "raised")
                                      ELSE IF enr.trades = <<>>
                                      THEN Returned(<<>>, FALSE, "upstream")
                                      ELSE [hist.race[r] EXCEPT !.pc = "computed",
                                                                !.trades = enr.trades])
    /\ UNCHANGED <<now, api_key, tx_source, quote_source, ret>>

\* _set_cached: self._memory_cache[cache_key] = (data, now)
RaceSetMemory(r) ==
    /\ hist.race[r].pc = "computed"
    /\ memory_cache' = SetCachedMem(memory_cache, RaceKey, hist.race[r].trades, now)
    /\ hist' = Moved(r, [hist.race[r] EXCEPT !.pc = "memory"])
    /\ UNCHANGED <<now, cache_files, api_key, tx_source, quote_source, ret>>

\* _set_cached: open(cache_file, 'w') leaves an empty file, which is no
\* JSON document; what json.dump writes stays in the buffer of the file
\* object (a flush of one part of it leaves no JSON document either)
RaceOpen(r) ==
    /\ hist.race[r].pc = "memory"
    /\ cache_files' = WriteFile(cache_files, RaceKey, CorruptText, now)
    /\ hist' = Moved(r, [hist.race[r] EXCEPT !.pc = "open"])
    /\ UNCHANGED <<now, memory_cache, api_key, tx_source, quote_source, ret>>

\* _set_cached: the end of the with block writes the document from the
\* start of the file, and get_insider_trades returns the trades
RaceClose(r) ==
    /\ hist.race[r].pc = "open"
    /\ cache_files' = SetCachedFiles(cache_files, RaceKey, hist.race[r].trades, now)
    /\ hist' = Moved(r, Returned(hist.race[r].trades, FALSE, "upstream"))
    /\ UNCHANGED <<now, memory_cache, api_key, tx_source, quote_source, ret>>

RaceStep == \E r \in Racers :
    \/ RaceLookup(r)
    \/ RaceCompute(r)
    \/ RaceSetMemory(r)
    \/ RaceOpen(r)
    \/ RaceClose(r)

BothReturned == \A r \in Racers : hist.race[r].pc = "done"

\* a read after the race: get_insider_trades("XYZ", 10) on its own
RaceRead ==
    /\ BothReturned
    /\ hist.reads < MaxReads
    /\ \E res \in {GetInsiderTradesF(RaceSymbol, SYMBOL_FETCH_LIMIT, memory_cache,
                                     cache_files, <<>>, now)} :
          /\ memory_cache' = res.mem
          /\ cache_files' = res.files
          /\ ret' = [op |-> "get_insider_trades", id |-> RaceKey, at |-> now,
                     raised |-> res.raised, origin |-> res.origin,
                     trades |-> res.trades, since |-> hist.finished]
    /\ hist' = [hist EXCEPT !.reads = @ + 1]
    /\ UNCHANGED <<now, api_key, tx_source, quote_source>>

\* the process restarts after the race
RaceRestart ==
    /\ BothReturned
    /\ memory_cache # EmptyMap
    /\ memory_cache' = EmptyMap
    /\ UNCHANGED <<now, cache_files, api_key, tx_source, quote_source, ret, hist>>

NextRace == RaceStep \/ RaceRead \/ Tick \/ RaceRestart

SpecRace == InitRace /\ [][NextRace]_vars

\* what a request on its own returns from an empty cache
LoneRequest ==
    GetInsiderTradesF(RaceSymbol, SYMBOL_FETCH_LIMIT, EmptyMap, EmptyMap, <<>>, now)

\* C23: in every interleaving of two concurrent requests for the same absent
\* or expired key against unchanged upstream data, neither request raises,
\* neither returns a partially written or corrupt value, each returns what a
\* lone request would return, and after both finish every read within the
\* TTL returns that same value.
C23_RacingPopulationHarmless ==
    /\ \A r \in Racers :
          hist.race[r].pc = "done" =>
              /\ ~hist.race[r].raised
              /\ hist.race[r].trades = LoneRequest.trades
    /\ (/\ ret.op = "get_insider_trades"
        /\ ret.at - ret.since < CACHE_DURATION) =>
          /\ ~ret.raised
          /\ ret.trades = LoneRequest.trades

\* the race adds nothing to a lone request: every racing request, and every
\* read after the race, raises exactly when a lone request raises and
\* returns the trades a lone request returns
RaceAddsNothing ==
    /\ \A r \in Racers :
          hist.race[r].pc = "done" =>
              /\ hist.race[r].raised = LoneRequest.raised
              /\ hist.race[r].trades = LoneRequest.trades
    /\ ret.op = "get_insider_trades" =>
          /\ ret.raised = LoneRequest.raised
          /\ ret.trades = LoneRequest.trades

(***************************************************************************)
(* SpecFrame: reads and writes of two cache keys, with values json.dump    *)
(* writes and values it rejects, across clock advances and restarts        *)
(***************************************************************************)
FrameKeys == {"quote_XYZ", "quote_ABC"}

FrameValues == {v \in DurableValues : v.dump \in {"ok", "TypeError"}}

FrameSet == \E key \in FrameKeys, value \in FrameValues : SetCachedValue(key, value)
FrameGet == \E key \in FrameKeys : GetCachedValue(key)

NextFrame == FrameSet \/ FrameGet \/ Tick \/ DurableRestart

SpecFrame == InitDurable /\ [][NextFrame]_vars

\* a step that is a read: _get_cached(ret'.key)
IsCacheRead == ret' # ret /\ ret'.op = "get"

\* C24: _get_cached never modifies the durable tier and never changes the
\* value or the write timestamp of an existing fresh entry; the only state
\* change it can make is to copy a fresh durable entry into the memory map
\* stamped with the durable write time (not the read time), so a read never
\* extends the lifetime of any entry.
C24_ReadChangesOnlyMemoryCopy ==
    [][IsCacheRead =>
        LET key == ret'.key IN
        /\ cache_files' = cache_files
        /\ DOMAIN memory_cache' \subseteq DOMAIN memory_cache \cup {key}
        /\ \A k \in DOMAIN memory_cache :
              (k # key \/ now - memory_cache[k].cached_time < CACHE_DURATION) =>
                  k \in DOMAIN memory_cache' /\ memory_cache'[k] = memory_cache[k]
        /\ memory_cache' # memory_cache =>
              /\ key \in DOMAIN cache_files
              /\ now - cache_files[key].mtime < CACHE_DURATION
              /\ cache_files[key].text.form = "json"
              /\ memory_cache'[key] = [data |-> cache_files[key].text.doc,
                                       cached_time |-> cache_files[key].mtime]
        /\ \A k \in DOMAIN memory_cache' :
              \/ k \in DOMAIN memory_cache
                    /\ memory_cache'[k].cached_time <= memory_cache[k].cached_time
              \/ k \in DOMAIN cache_files
                    /\ memory_cache'[k].cached_time <= cache_files[k].mtime
      ]_vars

\* a read, some time after the write and after a restart, that copied the
\* durable entry into the memory map with the time of the write
C24_Witness ==
    /\ ret.op = "get"
    /\ ret.tier = "file"
    /\ ~ret.held.some
    /\ ret.file.some
    /\ ret.at > ret.file.v.mtime
    /\ ret.kept = Some([data |-> ret.file.v.text.doc, cached_time |-> ret.file.v.mtime])

\* C25: detect_cluster_activity is total over its parameters: for every
\* symbol, every integer days and every integer min_insiders (0 and negative
\* values included) and every transaction history, it returns either a
\* ClusterActivity or None and never raises.
C25_DetectClusterTotal ==
    ret.op = "detect" => ~ret.raised

(***************************************************************************)
(* SpecOrder: get_whale_alerts over symbol lists written in several        *)
(* orders, of two symbols whose trades share a date and of six symbols,    *)
(* one more than the scan takes                                            *)
(***************************************************************************)
\* the symbol lists of the calls, each with another order of its symbols
OrderLists ==
    {<<"AAPL", "META">>, <<"META", "AAPL">>,
     <<"NVDA", "MSFT">>, <<"MSFT", "NVDA">>,
     <<"AAPL", "XYZ">>, <<"XYZ", "AAPL">>,
     <<"AAPL", "AMZN", "GOOGL", "META", "MSFT", "NVDA">>,
     <<"NVDA", "AAPL", "AMZN", "GOOGL", "META", "MSFT">>}

\* a purchase of AAPL and a sale of XYZ reported on the same day
OrderFeed ==
    << RawTrade("AAPL", "Ann", "P-Purchase", IsoDate(0), RawNum(1000), RawNum(20000)),
       RawTrade("XYZ", "Bob", "S-Sale", IsoDate(0), RawNum(1000), RawNum(30000)) >>

InitOrder ==
    /\ now = 0
    /\ memory_cache = EmptyMap
    /\ cache_files = EmptyMap
    /\ \/ api_key = FALSE /\ tx_source = NoFeed
       \/ api_key = TRUE /\ tx_source = [ok |-> TRUE, feed |-> OrderFeed]
    /\ quote_source = NoQuotes
    /\ ret = [op |-> "init"]
    /\ hist = NoHist

\* get_whale_alerts(symbols, limit); `empty` tells a call on an empty cache
OrderGetWhaleAlerts(symbols, limit) ==
    /\ hist.n < MaxCalls
    /\ \E res \in {GetWhaleAlertsF(symbols, limit, memory_cache, cache_files,
                                   <<>>, now)} :
          /\ memory_cache' = res.mem
          /\ cache_files' = res.files
          /\ ret' = [op |-> "get_whale_alerts", symbols |-> symbols, limit |-> limit,
                     id |-> WhaleAlertsKey(symbols, limit), at |-> now,
                     raised |-> res.raised, origin |-> res.origin,
                     alerts |-> res.alerts,
                     empty |-> memory_cache = EmptyMap /\ cache_files = EmptyMap]
    /\ hist' = [hist EXCEPT !.n = @ + 1]
    /\ UNCHANGED <<now, api_key, tx_source, quote_source>>

OrderCall ==
    \E symbols \in OrderLists, limit \in {1, RADAR_LIMIT} :
        OrderGetWhaleAlerts(symbols, limit)

NextOrder == OrderCall \/ Tick \/ Restart

SpecOrder == InitOrder /\ [][NextOrder]_vars

\* the same symbols in another order
IsPermutation(a, b) ==
    /\ Len(a) = Len(b)
    /\ {a[i] : i \in 1..Len(a)} = {b[i] : i \in 1..Len(b)}

\* the feed of a call on an empty cache at time t
FeedFromEmpty(symbols, limit, t) ==
    GetWhaleAlertsF(symbols, limit, EmptyMap, EmptyMap, <<>>, t).alerts

\* C26: starting from an empty cache and a fixed upstream state,
\* get_whale_alerts(symbols, limit) returns the same feed for every
\* permutation of the same symbol list of any length; two calls that map to
\* the same whale_alerts cache key would compute the same feed.
C26_SymbolOrderIndependent ==
    (ret.op = "get_whale_alerts" /\ ret.empty /\ ~ret.raised) =>
        \A other \in OrderLists :
            IsPermutation(other, ret.symbols) =>
                /\ WhaleAlertsKey(other, ret.limit) = ret.id
                /\ FeedFromEmpty(other, ret.limit, ret.at) = ret.alerts

\* a call answered from the cache the feed that a call with the symbols in
\* another order computed, which is not the feed of its own order
OrderServedOtherFeed ==
    /\ ret.op = "get_whale_alerts"
    /\ ret.origin = "cache"
    /\ ret.alerts # FeedFromEmpty(ret.symbols, ret.limit, ret.at)

(***************************************************************************)
(* SpecStale: the market-wide chain get_radar_data -> get_whale_alerts ->  *)
(* get_insider_trades over clock advances and restarts.  A                 *)
(* get_insider_trades call that fetches takes time: its request to the     *)
(* transaction source is sent at one instant and _set_cached stamps the    *)
(* entry with datetime.now() when the trades are built and enriched, up to *)
(* MaxLatency seconds later.  hist.src keeps, for each cache entry, when   *)
(* the transactions in it were fetched (born) and how long the fetching    *)
(* call took to write them (slack).                                        *)
(***************************************************************************)
MaxLatency == 3
MaxStaleCalls == 4

\* the instants of the clock: ages of CACHE_DURATION - 1 stacked three
\* times, with and without the latency of a fetch
StaleGrid ==
    {k * (CACHE_DURATION - 1) + d : k \in 0..3, d \in {0, MaxLatency}}

StaleInsiderKey == InsiderTradesKey(NoStr, MARKET_FETCH_LIMIT)
StaleAlertsKey == WhaleAlertsKey(<<>>, RADAR_LIMIT)
StaleRadarKey == RadarDataKey(<<>>)

\* one sale of 600,000 dollars, above the floor of the market-wide feed
StaleFeed ==
    << RawTrade("XYZ", "Ann", "S-Sale", IsoDate(0), RawNum(2000), RawNum(30000)) >>

NoPending == [some |-> FALSE, trades |-> <<>>, fetched |-> 0]

InitStale ==
    /\ now = 0
    /\ memory_cache = EmptyMap
    /\ cache_files = EmptyMap
    /\ \/ api_key = FALSE /\ tx_source = NoFeed
       \/ api_key = TRUE /\ tx_source = [ok |-> TRUE, feed |-> StaleFeed]
    /\ quote_source = NoQuotes
    /\ ret = [op |-> "init"]
    /\ hist = [n |-> 0, pending |-> NoPending, src |-> EmptyMap]

\* _get_cached(key) would return an entry now
Hit(key) == GetCachedF(memory_cache, cache_files, key, now).data.some

FreshSource == [born |-> now, slack |-> 0]
InsiderSource == IF Hit(StaleInsiderKey) THEN hist.src[StaleInsiderKey] ELSE FreshSource
AlertsSource == IF Hit(StaleAlertsKey) THEN hist.src[StaleAlertsKey] ELSE InsiderSource
RadarSource == IF Hit(StaleRadarKey) THEN hist.src[StaleRadarKey] ELSE AlertsSource

\* the call wrote the entry of the key
Wrote(res, key) ==
    /\ ~Hit(key)
    /\ key \in DOMAIN res.mem
    /\ res.mem[key].cached_time = now

\* the sources after a call that wrote the entries of `keys` from `source`
Sourced(src, res, keys, source) ==
    [k \in DOMAIN src \cup {x \in keys : Wrote(res, x)} |->
        IF k \in keys /\ Wrote(res, k) THEN source ELSE src[k]]

\* the tier `new` with the entry of the key as it is in `old`
Deferred(old, new, key) ==
    [k \in (DOMAIN new \ {key}) \cup (DOMAIN old \cap {key}) |->
        IF k = key THEN old[k] ELSE new[k]]

\* get_insider_trades(limit=50) up to "if trades:"; a call that has trades
\* to cache is left pending at its _set_cached, every other call returns
StaleInsiderFetch ==
    /\ ~hist.pending.some
    /\ hist.n < MaxStaleCalls
    /\ \E res \in {GetInsiderTradesF(NoStr, MARKET_FETCH_LIMIT, memory_cache,
                                     cache_files, <<>>, now)} :
          IF res.origin = "upstream" /\ res.trades # <<>>
          THEN /\ memory_cache' = Deferred(memory_cache, res.mem, StaleInsiderKey)
               /\ cache_files' = Deferred(cache_files, res.files, StaleInsiderKey)
               /\ hist' = [hist EXCEPT !.n = @ + 1,
                                       !.pending = [some |-> TRUE, trades |-> res.trades,
                                                    fetched |-> now]]
               /\ UNCHANGED ret
          ELSE /\ memory_cache' = res.mem
               /\ cache_files' = res.files
               /\ hist' = [hist EXCEPT !.n = @ + 1]
               /\ ret' = [op |-> "get_insider_trades", at |-> now,
                          raised |-> res.raised, origin |-> res.origin,
                          trades |-> res.trades, source |-> InsiderSource]
    /\ UNCHANGED <<now, api_key, tx_source, quote_source>>

\* self._set_cached(cache_key, ...) and the return of the pending call
StaleInsiderStore ==
    /\ hist.pending.some
    /\ memory_cache' = SetCachedMem(memory_cache, StaleInsiderKey,
                                    hist.pending.trades, now)
    /\ cache_files' = SetCachedFiles(cache_files, StaleInsiderKey,
                                     hist.pending.trades, now)
    /\ \E source \in {[born |-> hist.pending.fetched,
                       slack |-> now - hist.pending.fetched]} :
          /\ hist' = [hist EXCEPT !.pending = NoPending,
                                  !.src = Put(hist.src, StaleInsiderKey, source)]
          /\ ret' = [op |-> "get_insider_trades", at |-> now, raised |-> FALSE,
                     origin |-> "upstream", trades |-> hist.pending.trades,
                     source |-> source]
    /\ UNCHANGED <<now, api_key, tx_source, quote_source>>

\* get_whale_alerts(None, limit=20)
StaleAlerts ==
    /\ ~hist.pending.some
    /\ hist.n < MaxStaleCalls
    /\ \E res \in {GetWhaleAlertsF(<<>>, RADAR_LIMIT, memory_cache, cache_files,
                                   <<>>, now)} :
          /\ memory_cache' = res.mem
          /\ cache_files' = res.files
          /\ hist' = [hist EXCEPT
                         !.n = @ + 1,
                         !.src = Sourced(Sourced(hist.src, res, {StaleInsiderKey},
                                                 FreshSource),
                                         res, {StaleAlertsKey}, InsiderSource)]
          /\ ret' = [op |-> "get_whale_alerts", at |-> now, raised |-> res.raised,
                     origin |-> res.origin, alerts |-> res.alerts,
                     source |-> AlertsSource]
    /\ UNCHANGED <<now, api_key, tx_source, quote_source>>

\* get_radar_data(None)
StaleRadar ==
    /\ ~hist.pending.some
    /\ hist.n < MaxStaleCalls
    /\ \E res \in {GetRadarDataF(<<>>, memory_cache, cache_files, <<>>, now)} :
          /\ memory_cache' = res.mem
          /\ cache_files' = res.files
          /\ hist' = [hist EXCEPT
                         !.n = @ + 1,
                         !.src = Sourced(Sourced(Sourced(hist.src, res, {StaleInsiderKey},
                                                         FreshSource),
                                                 res, {StaleAlertsKey}, InsiderSource),
                                         res, {StaleRadarKey}, AlertsSource)]
          /\ ret' = [op |-> "get_radar_data", at |-> now, raised |-> res.raised,
                     origin |-> res.origin, result |-> res.result,
                     source |-> RadarSource]
    /\ UNCHANGED <<now, api_key, tx_source, quote_source>>

\* time passes; a pending call writes its entry within MaxLatency seconds
\* of its fetch
StaleTick ==
    /\ \E t \in StaleGrid :
          /\ t > now
          /\ hist.pending.some => t - hist.pending.fetched <= MaxLatency
          /\ now' = t
    /\ UNCHANGED <<memory_cache, cache_files, api_key, tx_source, quote_source, ret, hist>>

\* the process restarts between two calls
StaleRestart ==
    /\ ~hist.pending.some
    /\ memory_cache # EmptyMap
    /\ memory_cache' = EmptyMap
    /\ UNCHANGED <<now, cache_files, api_key, tx_source, quote_source, ret, hist>>

NextStale ==
    \/ StaleInsiderFetch
    \/ StaleInsiderStore
    \/ StaleAlerts
    \/ StaleRadar
    \/ StaleTick
    \/ StaleRestart

SpecStale == InitStale /\ [][NextStale]_vars

\* the radar response shows transactions
ShowsTransactions ==
    /\ ret.op = "get_radar_data"
    /\ ~ret.raised
    /\ ret.result.v.alerts # <<>>

MINUTE_SECONDS == 60
HOUR_SECONDS == 3600

\* block_duration_seconds of RateLimitConfig() and of the global rate_limiter
BLOCK_DEFAULT == 60
BLOCK_GLOBAL == 30

\* a blocked client waits block_duration_seconds * 5 after the hourly limit
HOUR_BLOCK_FACTOR == 5

\* resolution of the clock, limits of the configurations, and length of the
\* request sequences explored
TicksPerSecond == 2
MaxPerMinute == 2
MaxPerHour == 3
MaxRequests == 5
MaxWaits == 3

Seconds(s) == s * TicksPerSecond

\* int(x) of a non-negative duration
IntSeconds(ticks) == ticks \div TicksPerSecond

\* what _get_client_key returns for two clients
ClientKeys == {"10.0.0.1:d41d8cd9", "10.0.0.2:d41d8cd9"}

LimiterConfigs ==
    {[requests_per_minute |-> MaxPerMinute, requests_per_hour |-> MaxPerHour,
      block_duration_seconds |-> b] : b \in {BLOCK_DEFAULT, BLOCK_GLOBAL}}

NoOutcome == [seen |-> FALSE, allowed |-> FALSE, at |-> 0, retry_after |-> 0]

\* SlidingWindowRateLimiter(config)
InitLimiter ==
    /\ now = 0
    /\ memory_cache = EmptyMap
    /\ cache_files = EmptyMap
    /\ api_key = FALSE
    /\ tx_source = NoFeed
    /\ quote_source = NoQuotes
    /\ ret = [op |-> "none"]
    /\ \E config \in LimiterConfigs :
          hist = [config |-> config,
                  minute_windows |-> [k \in ClientKeys |-> << >>],
                  hour_windows |-> [k \in ClientKeys |-> << >>],
                  blocked_until |-> {},
                  accepted |-> [k \in ClientKeys |-> << >>],
                  last |-> [k \in ClientKeys |-> NoOutcome],
                  n |-> 0, waits |-> 0]

\* a cleanup that keeps only the younger half of the minute
cleanup_window_half(window, cutoff) ==
    SelectSeq(window, LAMBDA ts : ts > cutoff + Seconds(BLOCK_GLOBAL))

\* _cleanup_window(window, cutoff)
cleanup_window(window, cutoff) ==
    SelectSeq(window, LAMBDA ts : ts > cutoff)

\* the dict _blocked_until as the set of its items: key in d, d[key],
\* del d[key] and d[key] = v
HasKey(d, key) == \E item \in d : item[1] = key

ValueOf(d, key) == (CHOOSE item \in d : item[1] = key)[2]

Without(d, key) == {item \in d : item[1] # key}

With(d, key, v) == Without(d, key) \cup {<<key, v>>}

\* is_allowed once the client key and the time are known: the limiter it
\* leaves and the pair it returns
is_allowed(L, client_key, t) ==
    LET config == L.config
        blocked == HasKey(L.blocked_until, client_key)
                   /\ t < ValueOf(L.blocked_until, client_key)
        unblocked == IF HasKey(L.blocked_until, client_key)
                     THEN Without(L.blocked_until, client_key)
                     ELSE L.blocked_until
        minute == cleanup_window(L.minute_windows[client_key],
                                 t - Seconds(MINUTE_SECONDS))
        hour == cleanup_window(L.hour_windows[client_key],
                               t - Seconds(HOUR_SECONDS))
        cleaned == [L EXCEPT !.blocked_until = unblocked,
                             !.minute_windows[client_key] = minute,
                             !.hour_windows[client_key] = hour]
        minute_count == Len(minute)
        hour_count == Len(hour)
    IN  IF blocked
        THEN [limiter |-> L, allowed |-> FALSE, reason |-> "blocked",
              retry_after |-> IntSeconds(ValueOf(L.blocked_until, client_key) - t),
              remaining_minute |-> 0, remaining_hour |-> 0]
        ELSE IF minute_count >= config.requests_per_minute
        THEN [limiter |-> [cleaned EXCEPT !.blocked_until =
                              With(unblocked, client_key,
                                   t + Seconds(config.block_duration_seconds))],
              allowed |-> FALSE, reason |-> "minute",
              retry_after |-> config.block_duration_seconds,
              remaining_minute |-> 0, remaining_hour |-> 0]
        ELSE IF hour_count >= config.requests_per_hour
        THEN [limiter |-> [cleaned EXCEPT !.blocked_until =
                              With(unblocked, client_key,
                                   t + Seconds(config.block_duration_seconds
                                               * HOUR_BLOCK_FACTOR))],
              allowed |-> FALSE, reason |-> "hour",
              retry_after |-> config.block_duration_seconds * HOUR_BLOCK_FACTOR,
              remaining_minute |-> 0, remaining_hour |-> 0]
        ELSE [limiter |-> [cleaned EXCEPT
                              !.minute_windows[client_key] = Append(minute, t),
                              !.hour_windows[client_key] = Append(hour, t)],
              allowed |-> TRUE, reason |-> "ok", retry_after |-> 0,
              remaining_minute |-> config.requests_per_minute - minute_count - 1,
              remaining_hour |-> config.requests_per_hour - hour_count - 1]

\* rate_limiter.is_allowed(request) for a request of one client
IsAllowedCall ==
    /\ hist.n < MaxRequests
    /\ \E client_key \in ClientKeys :
       \E res \in {is_allowed(hist, client_key, now)} :
          /\ hist' = [res.limiter EXCEPT
                         !.accepted[client_key] =
                             IF res.allowed THEN Append(@, now) ELSE @,
                         !.last[client_key] =
                             [seen |-> TRUE, allowed |-> res.allowed, at |-> now,
                              retry_after |-> res.retry_after],
                         !.n = @ + 1]
          /\ ret' = [op |-> "is_allowed", client |-> client_key, at |-> now,
                     allowed |-> res.allowed, reason |-> res.reason,
                     retry_after |-> res.retry_after,
                     remaining_minute |-> res.remaining_minute,
                     remaining_hour |-> res.remaining_hour,
                     prev |-> hist.last[client_key],
                     blocked_before |-> hist.blocked_until,
                     blocked_after |-> res.limiter.blocked_until,
                     minute_before |-> hist.minute_windows[client_key],
                     minute_after |-> res.limiter.minute_windows[client_key],
                     hour_before |-> hist.hour_windows[client_key],
                     hour_after |-> res.limiter.hour_windows[client_key]]
    /\ UNCHANGED <<now, memory_cache, cache_files, api_key, tx_source, quote_source>>

\* how long the clients stay silent: an instant, a minute, an hour, or the
\* retry_after seconds the last rejection announced
WaitSteps ==
    {1, Seconds(MINUTE_SECONDS), Seconds(HOUR_SECONDS)}
    \cup (IF ret.op = "is_allowed" /\ ~ret.allowed /\ ret.retry_after > 0
          THEN {Seconds(ret.retry_after)} ELSE {})

\* time.time() advances between two requests
LimiterWait ==
    /\ hist.waits < MaxWaits
    /\ \E d \in WaitSteps : now' = now + d
    /\ hist' = [hist EXCEPT !.waits = @ + 1]
    /\ UNCHANGED <<memory_cache, cache_files, api_key, tx_source, quote_source, ret>>

NextLimiter == IsAllowedCall \/ LimiterWait

SpecLimiter == InitLimiter /\ [][NextLimiter]_vars

\* number of requests of a client accepted with a timestamp in (lo, hi]
AcceptedIn(client_key, lo, hi) ==
    Cardinality({i \in 1..Len(hist.accepted[client_key]) :
                    /\ lo < hist.accepted[client_key][i]
                    /\ hist.accepted[client_key][i] <= hi})

\* the instants t at which the count of (t - w, t] can reach its maximum:
\* the count grows only when t passes an accepted timestamp
WindowEnds(client_key) ==
    {hist.accepted[client_key][i] : i \in 1..Len(hist.accepted[client_key])}
    \cup {now}

\* C29: for every client key and every time t, the requests of that client
\* that is_allowed accepted with timestamps in (t - 60, t] number at most
\* requests_per_minute, and those in (t - 3600, t] at most
\* requests_per_hour; a rejected request is recorded in neither window.
C29_SlidingWindowBound ==
    /\ \A client_key \in ClientKeys : \A t \in WindowEnds(client_key) :
          /\ AcceptedIn(client_key, t - Seconds(MINUTE_SECONDS), t)
                <= hist.config.requests_per_minute
          /\ AcceptedIn(client_key, t - Seconds(HOUR_SECONDS), t)
                <= hist.config.requests_per_hour
    /\ (ret.op = "is_allowed" /\ ~ret.allowed) =>
          /\ ret.minute_after \in
                {ret.minute_before,
                 cleanup_window(ret.minute_before, ret.at - Seconds(MINUTE_SECONDS))}
          /\ ret.hour_after \in
                {ret.hour_before,
                 cleanup_window(ret.hour_before, ret.at - Seconds(HOUR_SECONDS))}

\* a client at its minute limit is rejected while its window is full, and
\* accepted again, more than an hour after its first request, once the
\* window has slid past its old requests
C29_Witness ==
    /\ ret.op = "is_allowed"
    /\ ret.allowed
    /\ ret.prev.seen
    /\ ~ret.prev.allowed
    /\ ret.at > Seconds(HOUR_SECONDS)
    /\ Len(hist.accepted[ret.client]) > hist.config.requests_per_hour
    /\ AcceptedIn(ret.client, ret.at - Seconds(HOUR_SECONDS), ret.at)
          = hist.config.requests_per_hour

\* the last request of the client was rejected with retry_after = r, and the
\* client then sent nothing for at least r seconds
WaitedRetryAfter ==
    /\ ret.op = "is_allowed"
    /\ ret.prev.seen
    /\ ~ret.prev.allowed
    /\ ret.at >= ret.prev.at + Seconds(ret.prev.retry_after)

\* C30: a client that is rejected by is_allowed with retry_after = r and
\* sends no request during the next r seconds has its next request
\* accepted; while the block lasts every request of that client is rejected
\* without extending the block.
C30_RetryAfterHonoured ==
    /\ WaitedRetryAfter => ret.allowed
    /\ (ret.op = "is_allowed" /\ HasKey(ret.blocked_before, ret.client)
        /\ ret.at < ValueOf(ret.blocked_before, ret.client)) =>
          /\ ~ret.allowed
          /\ ret.blocked_after = ret.blocked_before

\* the second half of C30 holds: a request made while the block lasts is
\* rejected and leaves every block as it was
BlockNotExtended ==
    (ret.op = "is_allowed" /\ HasKey(ret.blocked_before, ret.client)
     /\ ret.at < ValueOf(ret.blocked_before, ret.client)) =>
        /\ ~ret.allowed
        /\ ret.reason = "blocked"
        /\ ret.blocked_after = ret.blocked_before

\* the ways the first half fails: after the announced wait the request is
\* rejected by a window that is still full, or by the block itself
RejectedAfterWaitByWindow ==
    WaitedRetryAfter /\ ~ret.allowed /\ ret.reason \in {"minute", "hour"}

RejectedAfterWaitByBlock ==
    WaitedRetryAfter /\ ~ret.allowed /\ ret.reason = "blocked"

====
